---- MODULE Spec2Model ----
(***************************************************************************)
(* PartSync: relay (diff store, conflict resolver, lock manager, socket    *)
(* handlers) and CLI client (watcher, sync client).                        *)
(*                                                                         *)
(* Tables (SQLite tables, JS Maps) are modelled as SETS OF ROWS, so that   *)
(* key uniqueness is a property of the operations and not of the           *)
(* representation.  A patch is a sequence of hunks; a hunk carries the     *)
(* numbers of its "@@ -a,b +c,d @@" header and the text it replaces.       *)
(***************************************************************************)
EXTENDS Integers, Sequences, FiniteSets, TLC

\* ------------------------------------------------------------------ bounds
\* stored diffs the store specification lets the relay receive
MaxDiffs == 3
\* sync:full-file, diff:undo and file:delete messages the store specification lets in
MaxOther == 1
\* diffs the history specification lets in once the history is nearly full
MaxExtra == 4
\* quiet stretches (half a lock lifetime each) the lock specification lets pass
MaxTicks == 3
\* lock / unlock / delete / rename messages the lock specification lets in
MaxLockOps == 2
\* relay restarts the lock specification lets happen
MaxRestarts == 1
\* local edits the sync specification lets the users make
MaxEdits == 2
\* connection drops the offline specification lets happen
MaxDrops == 1
\* diffs the sync specifications let the clients produce in all
MaxProduced == 3
\* file writes the agent-detector specification lets happen
MaxWrites == 4

\* ------------------------------------------------------- program constants
MAX_DIFF_HISTORY == 100
LOCK_EXPIRY_MS == 300000
SWEEP_INTERVAL_MS == 30000
DEFAULT_LIMIT == 100
AI_BURST_COUNT == 3
AI_BURST_THRESHOLD_MS == 50
DEBOUNCE_MS == 300
AI_BURST_DEBOUNCE_MS == 100
\* the delay of burstTimeout in recordWrite
BURST_TIMEOUT_MS == 2000
\* the delay of setTimeout(() => { applyingIncoming = false; }, 200)
GUARD_RELEASE_MS == 200

\* ------------------------------------------------------------- input sets
Files == {"foo.txt", "notes"}
Names == {"A", "B"}
Conns == {"s1", "s2", "s3"}
Hashes == {1, 2}
DiffTypes == {"human", "ai"}
LockTypes == {"editing", "ai-writing"}
\* a count that the hunk header does not print ("@@ -3 +3 @@")
Absent == -1
\* the end of the whole-file range { start: 0, end: Infinity }
Infinity == 1000000
NoRow == [none |-> TRUE]

Hunk(start, count) == [start |-> start, count |-> count, old |-> 0, new |-> 1]
\* patches the relay specifications receive: text without a hunk header,
\* a hunk on line 1, a hunk on line 2
PatchInputs == { <<>>, <<Hunk(1, Absent)>>, <<Hunk(2, Absent)>> }

VARIABLES
    \* relay, persisted (SQLite)
    diffs,          \* table diffs
    diffSeq,        \* AUTOINCREMENT counter of diffs
    file_versions,  \* table file_versions
    conflicts,      \* table conflicts, in insertion order (index = id)
    dbLocks,        \* table locks
    \* relay, in memory
    inMemoryLocks,  \* Map file -> LockEntry
    connectedClients, \* Map socket.id -> ClientInfo
    now,            \* Date.now() at the relay
    \* observation
    ev,             \* the handler that ran last: its input and what it emitted
    history,        \* every row ever inserted into diffs, by id
    lastHash,       \* per file, the hash carried by the last file:diff / sync:full-file
    sweepAt,        \* when the setInterval of the lock sweeper fires next
    budget          \* messages the environment may still send

VARIABLES
    \* CLI client, one per client name
    disk,             \* the content of the watched file on the client's disk
    fileContents,     \* watcher.ts: cache of the content last diffed
    fileVersions,     \* syncClient: hash the client believes the file has
    pendingDiffs,     \* syncClient: diffs queued while disconnected
    applyingIncoming, \* syncClient: the guard flag
    guardTimers,      \* outstanding setTimeout(() => applyingIncoming = false, 200)
    debounceTimers,   \* watcher.ts: a debounce timer is pending for the file
    changeEvents,     \* chokidar: a 'change' event for the file is due
    socket,           \* socket.id of the client's connection, NoSocket when disconnected
    sendBuffer,       \* socket.io-client: packets emitted while disconnected
    autoLockTimers,   \* lockClient: the auto-release timer is pending
    burstMode,        \* agentDetector
    rapidWrites,      \* agentDetector: rapid gaps at the end of recentWrites
    \* the connections
    toRelay,          \* packets in flight, client to relay, per client
    fromRelay,        \* packets in flight, relay to client, per client
    \* observation
    obs,              \* per client: local edits made, diffs produced, emitted, queued,
                      \* the id of the last stored diff when the client went
                      \* offline with nothing in flight to it, the store id of
                      \* the file:diff that arrived last, and the store ids of
                      \* the diffs it has applied
    timing            \* per client: the age of the last recorded write, the time left
                      \* on the debounce timer and on burstTimeout, and what was
                      \* seen of the writes since the last diff the client made

relayVars == <<diffs, diffSeq, file_versions, conflicts, dbLocks,
               inMemoryLocks, connectedClients, now, ev, history, lastHash,
               sweepAt, budget>>

clientVars == <<disk, fileContents, fileVersions, pendingDiffs, applyingIncoming,
                guardTimers, debounceTimers, changeEvents, socket, sendBuffer,
                autoLockTimers, burstMode, rapidWrites, toRelay, fromRelay, obs,
                timing>>

vars == <<relayVars, clientVars>>

\* ------------------------------------------------------------- utilities
Min(a, b) == IF a < b THEN a ELSE b

RowsOf(table, file) == { r \in table : r.file = file }

\* INSERT OR REPLACE on a table whose primary key is file; Map.set(file, row)
Upsert(table, row) == { r \in table : r.file # row.file } \cup { row }

\* DELETE FROM table WHERE file = ?; Map.delete(file)
DeleteKey(table, file) == { r \in table : r.file # file }

\* Map.get(file) / SELECT ... WHERE file = ? on a keyed table
Lookup(table, file) ==
    IF RowsOf(table, file) = {} THEN NoRow ELSE CHOOSE r \in RowsOf(table, file) : TRUE

\* every sequence that lists S in non-increasing timestamp order
\* (ORDER BY timestamp DESC; rows of equal timestamp come in any order)
RECURSIVE OrderByTimestampDesc(_)
OrderByTimestampDesc(S) ==
    IF S = {} THEN { <<>> }
    ELSE UNION { { <<r>> \o t : t \in OrderByTimestampDesc(S \ {r}) } :
                 r \in { x \in S : \A y \in S : y.timestamp <= x.timestamp } }

RECURSIVE OrderByIdAsc(_)
OrderByIdAsc(S) ==
    IF S = {} THEN <<>>
    ELSE LET r == CHOOSE x \in S : \A y \in S : x.id <= y.id
         IN <<r>> \o OrderByIdAsc(S \ {r})

Limit(seq, n) == SubSeq(seq, 1, Min(n, Len(seq)))

SeqToSet(seq) == { seq[i] : i \in 1..Len(seq) }

\* an insert that reuses the newest id
insertDiff_sameId(d) ==
    [id |-> diffSeq, file |-> d.file, patch |-> d.patch, author |-> d.author,
     type |-> d.type, timestamp |-> d.timestamp, version |-> d.version,
     previousVersion |-> d.previousVersion]

\* --------------------------------------------------------------- db.ts
\* insertDiff: the row the INSERT creates; its id is the next AUTOINCREMENT value
insertDiff(d) ==
    [id |-> diffSeq + 1, file |-> d.file, patch |-> d.patch, author |-> d.author,
     type |-> d.type, timestamp |-> d.timestamp, version |-> d.version,
     previousVersion |-> d.previousVersion]

\* getDiffsByFile: the possible result lists
getDiffsByFile(table, file, limit) ==
    { Limit(s, limit) : s \in OrderByTimestampDesc(RowsOf(table, file)) }

\* getDiffsSinceVersion
getDiffsSinceVersion(table, file, sinceVersion) ==
    LET same == { r.id : r \in { x \in RowsOf(table, file) : x.version = sinceVersion } }
        maxId == IF same = {} THEN 0 ELSE CHOOSE m \in same : \A k \in same : k <= m
    IN OrderByIdAsc({ r \in RowsOf(table, file) : r.id > maxId })

\* a getDiffById that falls back to the newest diff at or below the id
getDiffById_atMost(table, id) ==
    IF \E r \in table : r.id <= id
    THEN CHOOSE r \in table : r.id <= id /\ \A x \in table : x.id <= id => x.id <= r.id
    ELSE NoRow

\* getDiffById
getDiffById(table, id) ==
    IF \E r \in table : r.id = id THEN CHOOSE r \in table : r.id = id ELSE NoRow

\* pruneOldDiffs whose DELETE is not restricted to the file
RECURSIVE pruneOldDiffs_anyFile(_, _, _)
pruneOldDiffs_anyFile(table, file, maxKeep) ==
    LET mine == RowsOf(table, file)
    IN IF Cardinality(mine) <= maxKeep THEN { mine }
       ELSE UNION { pruneOldDiffs_anyFile(table \ {r}, file, maxKeep) :
                    r \in { x \in mine : \A y \in mine : x.timestamp <= y.timestamp } }

\* pruneOldDiffs: the possible tables after the DELETE.  The subquery keeps
\* maxKeep rows of the file, highest timestamps first; among rows of equal
\* timestamp the choice is the engine's.
RECURSIVE pruneOldDiffs(_, _, _)
pruneOldDiffs(table, file, maxKeep) ==
    LET mine == RowsOf(table, file)
    IN IF Cardinality(mine) <= maxKeep THEN { table }
       ELSE UNION { pruneOldDiffs(table \ {r}, file, maxKeep) :
                    r \in { x \in mine : \A y \in mine : x.timestamp <= y.timestamp } }

\* upsertFileVersion
upsertFileVersion(table, fv) == Upsert(table, fv)

\* getFileVersion
getFileVersion(table, file) == Lookup(table, file)

\* ------------------------------------------------------ conflictResolver
\* extractPatchRanges: one range per hunk header, from its new-side numbers
extractPatchRanges(patch) ==
    LET ranges == { [start |-> patch[i].start,
                     end   |-> patch[i].start
                               + (IF patch[i].count = Absent THEN 1 ELSE patch[i].count) - 1] :
                    i \in 1..Len(patch) }
    IN IF ranges = {} THEN { [start |-> 0, end |-> Infinity] } ELSE ranges

\* checkOverlap
checkOverlap(rangesA, rangesB) ==
    \E a \in rangesA : \E b \in rangesB : a.start <= b.end /\ b.start <= a.end

\* resolveConflict: its result; conflictEvent is NoRow when merged
resolveConflict(existingDiff, incomingDiff, timestamp) ==
    IF ~checkOverlap(extractPatchRanges(existingDiff.patch),
                     extractPatchRanges(incomingDiff.patch))
    THEN [merged |-> TRUE, conflictEvent |-> NoRow]
    ELSE [merged |-> FALSE,
          conflictEvent |-> [file |-> incomingDiff.file,
                             conflictFile |-> <<incomingDiff.file, "conflict", timestamp>>,
                             authorA |-> existingDiff.author,
                             authorB |-> incomingDiff.author,
                             timestamp |-> timestamp,
                             resolved |-> FALSE]]

\* ------------------------------------------------------------ diffStore
\* storeDiff that records the hash the diff started from
storeDiff_prevHash(d) ==
    LET row == insertDiff(d)
    IN /\ diffSeq' = row.id
       /\ history' = Append(history, row)
       /\ file_versions' = upsertFileVersion(file_versions,
              [file |-> d.file, hash |-> d.previousVersion, timestamp |-> d.timestamp])
       /\ diffs' \in pruneOldDiffs(diffs \cup {row}, d.file, MAX_DIFF_HISTORY)

\* storeDiff: insert, upsert the file version, prune
storeDiff(d) ==
    LET row == insertDiff(d)
    IN /\ diffSeq' = row.id
       /\ history' = Append(history, row)
       /\ file_versions' = upsertFileVersion(file_versions,
              [file |-> d.file, hash |-> d.version, timestamp |-> d.timestamp])
       /\ diffs' \in pruneOldDiffs(diffs \cup {row}, d.file, MAX_DIFF_HISTORY)

\* getDiffsForFile
getDiffsForFile(table, file, sinceVersion) ==
    IF sinceVersion # Absent
    THEN { getDiffsSinceVersion(table, file, sinceVersion) }
    ELSE getDiffsByFile(table, file, DEFAULT_LIMIT)

\* -------------------------------------------------------- socketHandlers
Emit(event, to, payload) == [event |-> event, to |-> to, payload |-> payload]

NameOf(conn) == (CHOOSE c \in connectedClients : c.id = conn).name

IsConnected(conn) == \E c \in connectedClients : c.id = conn

\* the rows that can stand last in the list getDiffsForFile(file) returns:
\* position min(n, limit) of the file's rows in non-increasing timestamp order
LastOfDiffsForFile(table, file) ==
    LET mine == RowsOf(table, file)
        k == Min(DEFAULT_LIMIT, Cardinality(mine))
    IN { r \in mine :
           /\ Cardinality({ x \in mine : x.timestamp > r.timestamp }) < k
           /\ k <= Cardinality({ x \in mine : x.timestamp >= r.timestamp }) }

\* the rest of a file:diff handler that reports a conflict whatever the check said
FileDiffStore_reportsAll(conn, d, currentVersion, existing, result) ==
    /\ conflicts' = Append(conflicts, result.conflictEvent)
    /\ storeDiff(d)
    /\ ev' = [op |-> "file:diff", conn |-> conn, arg |-> d,
              seen |-> currentVersion, conflictsBefore |-> Len(conflicts),
              existing |-> existing,
              out |-> << Emit("file:conflict", "all", result.conflictEvent),
                         Emit("file:diff", "others", insertDiff(d)) >>]
    /\ lastHash' = [lastHash EXCEPT ![d.file] = d.version]
    /\ UNCHANGED <<dbLocks, inMemoryLocks, connectedClients, now>>

\* socket.on('file:diff') from the point where the conflict check is done
FileDiffStore(conn, d, currentVersion, existing, result) ==
    /\ conflicts' = IF ~result.merged
                    THEN Append(conflicts, result.conflictEvent)
                    ELSE conflicts
    /\ storeDiff(d)
    /\ ev' = [op |-> "file:diff", conn |-> conn, arg |-> d,
              seen |-> currentVersion, conflictsBefore |-> Len(conflicts),
              existing |-> existing,
              out |-> (IF ~result.merged
                       THEN << Emit("file:conflict", "all", result.conflictEvent) >>
                       ELSE << >>)
                      \o << Emit("file:diff", "others", insertDiff(d)) >>]
    /\ lastHash' = [lastHash EXCEPT ![d.file] = d.version]
    /\ UNCHANGED <<dbLocks, inMemoryLocks, connectedClients, now>>

\* a file:diff handler that drops the diff of a client while another holds the lock
OnFileDiff_lockChecked(conn, d) ==
    LET currentVersion == getFileVersion(file_versions, d.file)
        held == Lookup(inMemoryLocks, d.file)
    IN /\ IsConnected(conn)
       /\ IF held # NoRow /\ held.lockedBy # NameOf(conn)
          THEN /\ ev' = [op |-> "file:diff", conn |-> conn, arg |-> d,
                         seen |-> currentVersion, conflictsBefore |-> Len(conflicts),
                         existing |-> NoRow, out |-> << >>]
               /\ UNCHANGED <<dbLocks, inMemoryLocks, connectedClients, now, diffs,
                              diffSeq, file_versions, conflicts, history, lastHash>>
          ELSE FileDiffStore(conn, d, currentVersion, NoRow,
                             [merged |-> TRUE, conflictEvent |-> NoRow])

\* socket.on('file:diff')
OnFileDiff(conn, d) ==
    LET currentVersion == getFileVersion(file_versions, d.file)
        mismatch == currentVersion # NoRow /\ currentVersion.hash # d.previousVersion
        lastDiffs == LastOfDiffsForFile(diffs, d.file)
    IN /\ IsConnected(conn)
       /\ IF mismatch /\ lastDiffs # {}
          THEN \E lastDiff \in lastDiffs :
                  FileDiffStore(conn, d, currentVersion, lastDiff,
                                resolveConflict(lastDiff, d, now))
          ELSE FileDiffStore(conn, d, currentVersion, NoRow,
                             [merged |-> TRUE, conflictEvent |-> NoRow])

\* socket.on('sync:full-file')
OnFullFile(conn, data) ==
    /\ IsConnected(conn)
    /\ file_versions' = upsertFileVersion(file_versions,
           [file |-> data.file, hash |-> data.hash, timestamp |-> now])
    /\ ev' = [op |-> "sync:full-file", conn |-> conn, arg |-> data,
              out |-> << Emit("sync:apply-full-file", "others", data) >>]
    /\ lastHash' = [lastHash EXCEPT ![data.file] = data.hash]
    /\ UNCHANGED <<diffs, diffSeq, conflicts, dbLocks, inMemoryLocks,
                   connectedClients, now, history>>

\* a diff:undo handler that also moves the file version to the undone hash
OnUndo_setsVersion(conn, file, diffId) ==
    LET diff == getDiffById(diffs, diffId)
        undoDiff == [file |-> diff.file, patch |-> diff.patch, author |-> NameOf(conn),
                     type |-> "human", timestamp |-> now,
                     version |-> diff.previousVersion,
                     previousVersion |-> diff.version]
    IN /\ IsConnected(conn)
       /\ ev' = [op |-> "diff:undo", conn |-> conn,
                 arg |-> [file |-> file, diffId |-> diffId],
                 out |-> IF diff # NoRow
                         THEN << Emit("file:diff", "all", undoDiff) >>
                         ELSE << >>]
       /\ file_versions' = IF diff # NoRow
                           THEN upsertFileVersion(file_versions,
                                    [file |-> diff.file, hash |-> undoDiff.version,
                                     timestamp |-> now])
                           ELSE file_versions
       /\ UNCHANGED <<diffs, diffSeq, conflicts, dbLocks, inMemoryLocks,
                      connectedClients, now, history, lastHash>>

\* socket.on('diff:undo')
OnUndo(conn, file, diffId) ==
    LET diff == getDiffById(diffs, diffId)
        undoDiff == [file |-> diff.file, patch |-> diff.patch, author |-> NameOf(conn),
                     type |-> "human", timestamp |-> now,
                     version |-> diff.previousVersion,
                     previousVersion |-> diff.version]
    IN /\ IsConnected(conn)
       /\ ev' = [op |-> "diff:undo", conn |-> conn,
                 arg |-> [file |-> file, diffId |-> diffId],
                 out |-> IF diff # NoRow
                         THEN << Emit("file:diff", "all", undoDiff) >>
                         ELSE << >>]
       /\ UNCHANGED <<diffs, diffSeq, file_versions, conflicts, dbLocks, inMemoryLocks,
                      connectedClients, now, history, lastHash>>

\* ------------------------------------------------------------ diffEngine
\* A file's content is a sequence of regions far enough apart that a hunk
\* covers one of them; a region holds a value.
NoSocket == "none"

SyncFile == "foo.txt"

InitContent == <<0, 0>>

\* hashContent: the fingerprint, one per content
hashContent(content) == 1 + 2 * content[1] + content[2]

\* hasActualChanges
hasActualChanges(oldContent, newContent) == hashContent(oldContent) # hashContent(newContent)

\* createPatch: one hunk per region that differs, in file order
createPatch(oldContent, newContent) ==
    LET h(i) == [start |-> i, count |-> Absent, old |-> oldContent[i], new |-> newContent[i]]
    IN (IF oldContent[1] # newContent[1] THEN << h(1) >> ELSE << >>)
       \o (IF oldContent[2] # newContent[2] THEN << h(2) >> ELSE << >>)

\* patch_apply on one hunk: an exact match applies; otherwise the fuzzy match
\* either places the hunk or gives up
applyHunk(r, h) ==
    IF r.result[h.start] = h.old
    THEN { [result |-> [r.result EXCEPT ![h.start] = h.new], success |-> r.success] }
    ELSE { [result |-> [r.result EXCEPT ![h.start] = h.new], success |-> r.success],
           [result |-> r.result, success |-> FALSE] }

\* applyPatch: the possible { result, success }
RECURSIVE applyPatchFrom(_, _, _)
applyPatchFrom(rs, patch, i) ==
    IF i > Len(patch) THEN rs
    ELSE applyPatchFrom(UNION { applyHunk(r, patch[i]) : r \in rs }, patch, i + 1)

applyPatch(content, patch) ==
    applyPatchFrom({ [result |-> content, success |-> TRUE] }, patch, 1)

\* no write has been recorded for BURST_TIMEOUT_MS or longer, no timer is
\* pending, and the client has made no diff.
\*   sinceWrite  ms since the last recorded write, up to BURST_TIMEOUT_MS
\*   debounce    ms left on the debounce timer of the file, Absent if none
\*   burst       ms left on burstTimeout, Absent if none
\*   silent      since the client last made a diff, BURST_TIMEOUT_MS passed
\*               without a recorded write
\*   rapid3      since the client last made a diff, AI_BURST_COUNT writes were
\*               recorded each less than AI_BURST_THRESHOLD_MS after the other
\*   fresh       as rapid3, at any time, with no such silence since
\*   last        the diff the client made last: its type, the type of its
\*               lock, and silent, rapid3 and fresh when it was made
\*   guards      ms left on each pending release timer of the guard, oldest first
\*   sinceApply  ms since an incoming message was last applied, up to
\*               GUARD_RELEASE_MS
\*   sinceRapid  ms since a write was last recorded less than
\*               AI_BURST_THRESHOLD_MS after the one before, up to
\*               BURST_TIMEOUT_MS (followed in SpecBurst)
TimingInit ==
    [sinceWrite |-> BURST_TIMEOUT_MS, debounce |-> Absent, burst |-> Absent,
     silent |-> TRUE, rapid3 |-> FALSE, fresh |-> FALSE, last |-> NoRow,
     guards |-> << >>, sinceApply |-> GUARD_RELEASE_MS,
     sinceRapid |-> BURST_TIMEOUT_MS]

\* the clients have scanned their directories and are not connected
ClientsInit ==
    /\ disk = [c \in Names |-> InitContent]
    /\ fileContents = [c \in Names |-> InitContent]
    /\ fileVersions = [c \in Names |-> hashContent(InitContent)]
    /\ pendingDiffs = [c \in Names |-> << >>]
    /\ applyingIncoming = [c \in Names |-> FALSE]
    /\ guardTimers = [c \in Names |-> 0]
    /\ debounceTimers = [c \in Names |-> FALSE]
    /\ changeEvents = [c \in Names |-> FALSE]
    /\ socket = [c \in Names |-> NoSocket]
    /\ sendBuffer = [c \in Names |-> << >>]
    /\ autoLockTimers = [c \in Names |-> FALSE]
    /\ burstMode = [c \in Names |-> FALSE]
    /\ rapidWrites = [c \in Names |-> 0]
    /\ toRelay = [c \in Names |-> << >>]
    /\ fromRelay = [c \in Names |-> << >>]
    /\ obs = [c \in Names |-> [localEdits |-> 0, produced |-> 0,
                               emitted |-> << >>, queued |-> << >>,
                               handshaken |-> FALSE, awayFrom |-> Absent,
                                arrived |-> 0, applied |-> {}]]
    /\ timing = [c \in Names |-> TimingInit]

\* ---------------------------------------------------------- lockManager
\* a LockState that does not carry the time the lock was taken
LockState_zeroSince(e) ==
    [file |-> e.file, lockedBy |-> e.lockedBy, lockType |-> e.lockType, since |-> 0]

\* getAllLocks: a LockEntry without its socketId
LockState(e) ==
    [file |-> e.file, lockedBy |-> e.lockedBy, lockType |-> e.lockType, since |-> e.since]

\* upsertLock as a plain INSERT on a table without the primary key
upsertLock_noReplace(table, lock) == table \cup { lock }

\* upsertLock
upsertLock(table, lock) == Upsert(table, lock)

\* removeLock
removeLock(table, file) == DeleteKey(table, file)

\* removeLocksForClient that leaves the table as it is
removeLocksForClient_keeps(table, clientName) == table

\* removeLocksForClient
removeLocksForClient(table, clientName) == { r \in table : r.lockedBy # clientName }

\* acquireLock without the expiry test: any other holder's lock is taken over
acquireLock_alwaysTakeover(mem, db, file, lockedBy, lockType, socketId) ==
    LET lock == [file |-> file, lockedBy |-> lockedBy, lockType |-> lockType,
                 since |-> now, socketId |-> socketId]
    IN [success |-> TRUE, existingLock |-> NoRow,
        mem |-> Upsert(mem, lock),
        db |-> upsertLock(db, LockState(lock))]

\* acquireLock: [success, existingLock, mem, db]
acquireLock(mem, db, file, lockedBy, lockType, socketId) ==
    LET existing == Lookup(mem, file)
        lock == [file |-> file, lockedBy |-> lockedBy, lockType |-> lockType,
                 since |-> now, socketId |-> socketId]
    IN IF existing # NoRow /\ existing.lockedBy = lockedBy
       THEN [success |-> TRUE, existingLock |-> NoRow,
             mem |-> (mem \ {existing}) \cup {lock},
             db |-> upsertLock(db, LockState(lock))]
       ELSE IF existing # NoRow /\ now - existing.since < LOCK_EXPIRY_MS
       THEN [success |-> FALSE, existingLock |-> existing, mem |-> mem, db |-> db]
       ELSE [success |-> TRUE, existingLock |-> NoRow,
             mem |-> Upsert(mem, lock),
             db |-> upsertLock(db, LockState(lock))]

\* releaseLock that does not compare the holder
releaseLock_anyHolder(mem, db, file, lockedBy) ==
    LET existing == Lookup(mem, file)
    IN IF existing = NoRow THEN [released |-> FALSE, mem |-> mem, db |-> db]
       ELSE [released |-> TRUE, mem |-> DeleteKey(mem, file), db |-> removeLock(db, file)]

\* releaseLock: [released, mem, db]; lockedBy = NoSocket stands for an omitted argument
releaseLock(mem, db, file, lockedBy) ==
    LET existing == Lookup(mem, file)
    IN IF existing = NoRow THEN [released |-> FALSE, mem |-> mem, db |-> db]
       ELSE IF lockedBy # NoSocket /\ existing.lockedBy # lockedBy
       THEN [released |-> FALSE, mem |-> mem, db |-> db]
       ELSE [released |-> TRUE, mem |-> DeleteKey(mem, file), db |-> removeLock(db, file)]

\* releaseAllLocksForClient matching the socket id only
releaseAllLocksForClient_bySocket(mem, db, clientName, socketId) ==
    LET gone == { e \in mem : e.socketId = socketId }
    IN [released |-> { e.file : e \in gone },
        mem |-> mem \ gone,
        db |-> IF gone # {} THEN { r \in db : r.file \notin { e.file : e \in gone } } ELSE db]

\* releaseAllLocksForClient: [released, mem, db]
releaseAllLocksForClient(mem, db, clientName, socketId) ==
    LET gone == { e \in mem : e.lockedBy = clientName \/ e.socketId = socketId }
    IN [released |-> { e.file : e \in gone },
        mem |-> mem \ gone,
        db |-> IF gone # {} THEN removeLocksForClient(db, clientName) ELSE db]

\* getAllLocks
getAllLocks(mem) == { LockState(e) : e \in mem }

\* cleanExpiredLocks that forgets the locks table
cleanExpiredLocks_memOnly(mem, db) ==
    LET gone == { e \in mem : now - e.since >= LOCK_EXPIRY_MS }
    IN [expired |-> { e.file : e \in gone }, mem |-> mem \ gone, db |-> db]

\* cleanExpiredLocks: [expired, mem, db]
cleanExpiredLocks(mem, db) ==
    LET gone == { e \in mem : now - e.since >= LOCK_EXPIRY_MS }
    IN [expired |-> { e.file : e \in gone },
        mem |-> mem \ gone,
        db |-> { r \in db : r.file \notin { e.file : e \in gone } }]

\* restoreLocksFromDb, on an empty inMemoryLocks: [mem, db]
restoreLocksFromDb(db) ==
    LET live == { r \in db : now - r.since < LOCK_EXPIRY_MS }
    IN [mem |-> { [file |-> r.file, lockedBy |-> r.lockedBy, lockType |-> r.lockType,
                   since |-> r.since, socketId |-> NoSocket] : r \in live },
        db |-> { r \in db : r.file \in { x.file : x \in live } }]

\* --------------------------------------------- socketHandlers, lock side
broadcastLocks(mem) == Emit("file:lock-changed", "all", getAllLocks(mem))

storeUnchanged == UNCHANGED <<diffs, diffSeq, file_versions, conflicts, history, lastHash>>

\* io.on('connection')
OnConnection(conn, clientName) ==
    /\ ~IsConnected(conn)
    /\ connectedClients' = connectedClients \cup { [id |-> conn, name |-> clientName] }
    /\ ev' = [op |-> "connection", conn |-> conn, arg |-> clientName, out |-> << >>]
    /\ UNCHANGED <<dbLocks, inMemoryLocks, now>>
    /\ storeUnchanged

\* the file:lock handler calling acquireLock without the socket id
OnFileLock_noSocket(conn, file, lockType) ==
    LET result == acquireLock(inMemoryLocks, dbLocks, file, NameOf(conn), lockType, NoSocket)
    IN /\ IsConnected(conn)
       /\ inMemoryLocks' = result.mem
       /\ dbLocks' = result.db
       /\ ev' = [op |-> "file:lock", conn |-> conn, name |-> NameOf(conn),
                 arg |-> [file |-> file, lockType |-> lockType],
                 before |-> Lookup(inMemoryLocks, file),
                 result |-> [success |-> result.success,
                             existingLock |-> result.existingLock],
                 out |-> << broadcastLocks(result.mem) >>]
       /\ UNCHANGED <<connectedClients, now>>
       /\ storeUnchanged

\* socket.on('file:lock')
OnFileLock(conn, file, lockType) ==
    LET result == acquireLock(inMemoryLocks, dbLocks, file, NameOf(conn), lockType, conn)
    IN /\ IsConnected(conn)
       /\ inMemoryLocks' = result.mem
       /\ dbLocks' = result.db
       /\ ev' = [op |-> "file:lock", conn |-> conn, name |-> NameOf(conn),
                 arg |-> [file |-> file, lockType |-> lockType],
                 before |-> Lookup(inMemoryLocks, file),
                 result |-> [success |-> result.success,
                             existingLock |-> result.existingLock],
                 out |-> << broadcastLocks(result.mem) >>]
       /\ UNCHANGED <<connectedClients, now>>
       /\ storeUnchanged

\* socket.on('file:unlock')
OnFileUnlock(conn, file) ==
    LET result == releaseLock(inMemoryLocks, dbLocks, file, NameOf(conn))
    IN /\ IsConnected(conn)
       /\ inMemoryLocks' = result.mem
       /\ dbLocks' = result.db
       /\ ev' = [op |-> "file:unlock", conn |-> conn, arg |-> [file |-> file],
                 out |-> << broadcastLocks(result.mem) >>]
       /\ UNCHANGED <<connectedClients, now>>
       /\ storeUnchanged

\* socket.on('file:delete')
OnFileDelete(conn, data) ==
    LET result == releaseLock(inMemoryLocks, dbLocks, data.file, NoSocket)
    IN /\ IsConnected(conn)
       /\ inMemoryLocks' = result.mem
       /\ dbLocks' = result.db
       /\ ev' = [op |-> "file:delete", conn |-> conn, arg |-> data,
                 out |-> << Emit("file:delete", "others", data) >>]
       /\ UNCHANGED <<connectedClients, now>>
       /\ storeUnchanged

\* socket.on('file:rename')
OnFileRename(conn, data) ==
    LET result == releaseLock(inMemoryLocks, dbLocks, data.oldFile, NoSocket)
    IN /\ IsConnected(conn)
       /\ inMemoryLocks' = result.mem
       /\ dbLocks' = result.db
       /\ ev' = [op |-> "file:rename", conn |-> conn, arg |-> data,
                 out |-> << Emit("file:rename", "others", data) >>]
       /\ UNCHANGED <<connectedClients, now>>
       /\ storeUnchanged

\* socket.on('disconnect')
OnDisconnect(conn) ==
    LET result == releaseAllLocksForClient(inMemoryLocks, dbLocks, NameOf(conn), conn)
    IN /\ IsConnected(conn)
       /\ connectedClients' = { c \in connectedClients : c.id # conn }
       /\ inMemoryLocks' = result.mem
       /\ dbLocks' = result.db
       /\ ev' = [op |-> "disconnect", conn |-> conn, arg |-> NameOf(conn),
                 out |-> IF result.released # {}
                         THEN << broadcastLocks(result.mem) >> ELSE << >>]
       /\ UNCHANGED now
       /\ storeUnchanged

\* the setInterval callback of registerSocketHandlers
OnSweep ==
    LET result == cleanExpiredLocks(inMemoryLocks, dbLocks)
    IN /\ inMemoryLocks' = result.mem
       /\ dbLocks' = result.db
       /\ ev' = [op |-> "sweep", conn |-> NoSocket, arg |-> result.expired,
                 out |-> IF result.expired # {}
                         THEN << broadcastLocks(result.mem) >> ELSE << >>]
       /\ UNCHANGED <<connectedClients, now>>
       /\ storeUnchanged

\* index.ts at process start: a fresh process on the persisted database
OnRestart ==
    LET result == restoreLocksFromDb(dbLocks)
    IN /\ inMemoryLocks' = result.mem
       /\ dbLocks' = result.db
       /\ connectedClients' = {}
       /\ ev' = [op |-> "restart", conn |-> NoSocket, arg |-> NoRow, out |-> << >>]
       /\ UNCHANGED now
       /\ storeUnchanged

\* --------------------------------------- socketHandlers, sync:handshake
\* the diffs the handler collects for one file of serverVersions
MissingFor(file, serverHash, clientFileVersions) ==
    LET clientHash == IF file \in DOMAIN clientFileVersions
                      THEN clientFileVersions[file] ELSE Absent
    IN IF clientHash = serverHash THEN { << >> }
       ELSE getDiffsForFile(diffs, file, clientHash)

\* the possible missingDiffs: the files of file_versions come in the order
\* of the SELECT, which names none
RECURSIVE MissingDiffs(_, _)
MissingDiffs(rows, clientFileVersions) ==
    IF rows = {} THEN { << >> }
    ELSE UNION { { m \o rest : m \in MissingFor(r.file, r.hash, clientFileVersions),
                              rest \in MissingDiffs(rows \ {r}, clientFileVersions) } :
                 r \in rows }

\* socket.on('sync:handshake')
OnHandshake(conn, data, response) ==
    /\ IsConnected(conn)
    /\ response.missingDiffs \in MissingDiffs(file_versions, data.fileVersions)
    /\ response.fullFiles = << >>
    /\ response.locks = getAllLocks(inMemoryLocks)
    /\ ev' = [op |-> "sync:handshake", conn |-> conn, arg |-> data,
              out |-> << Emit("ack", conn, response) >>]
    /\ UNCHANGED <<dbLocks, inMemoryLocks, connectedClients, now>>
    /\ storeUnchanged

\* ================================================================ SpecStore
\* The relay's diff ingest with two connected clients: every interleaving of
\* file:diff, sync:full-file, diff:undo and file:delete messages.  The
\* clients' clocks agree here (a diff is stamped with the order of its
\* arrival); SpecHistory takes the timestamps apart.
StoreFiles == {"foo.txt"}

DiffInputs(conn) ==
    { [file |-> f, patch |-> p, author |-> NameOf(conn), type |-> "human",
       timestamp |-> diffSeq + 1, version |-> v, previousVersion |-> pv] :
      f \in StoreFiles, p \in PatchInputs, v \in Hashes, pv \in Hashes }

FullFileInputs ==
    { [file |-> f, content |-> <<1, 1>>, hash |-> h] : f \in StoreFiles, h \in Hashes }

RelayInit ==
    /\ diffs = {}
    /\ diffSeq = 0
    /\ file_versions = {}
    /\ conflicts = << >>
    /\ dbLocks = {}
    /\ inMemoryLocks = {}
    /\ connectedClients = {}
    /\ now = 0
    /\ ev = [op |-> "start", conn |-> NoSocket, arg |-> NoRow, out |-> << >>]
    /\ history = << >>
    /\ lastHash = [f \in Files |-> Absent]
    /\ sweepAt = SWEEP_INTERVAL_MS

\* two clients, A on socket s1 and B on socket s2, have connected
InitStore ==
    /\ diffs = {}
    /\ diffSeq = 0
    /\ file_versions = {}
    /\ conflicts = << >>
    /\ dbLocks = {}
    /\ inMemoryLocks = {}
    /\ connectedClients = { [id |-> "s1", name |-> "A"], [id |-> "s2", name |-> "B"] }
    /\ now = 0
    /\ ev = [op |-> "connection", conn |-> "s2", arg |-> "B", out |-> << >>]
    /\ history = << >>
    /\ lastHash = [f \in Files |-> Absent]
    /\ sweepAt = SWEEP_INTERVAL_MS
    /\ budget = [diff |-> MaxDiffs, other |-> MaxOther]
    /\ ClientsInit

Spend(kind) ==
    /\ budget[kind] > 0
    /\ budget' = [budget EXCEPT ![kind] = @ - 1]

StoreFileDiff ==
    \E conn \in Conns : IsConnected(conn) /\
        \E d \in DiffInputs(conn) :
            /\ d.version # d.previousVersion
            /\ Spend("diff")
            /\ OnFileDiff(conn, d)
            /\ UNCHANGED <<sweepAt, clientVars>>

StoreFullFile ==
    \E conn \in Conns : \E data \in FullFileInputs :
        /\ Spend("other")
        /\ OnFullFile(conn, data)
        /\ UNCHANGED <<sweepAt, clientVars>>

StoreUndo ==
    \E conn \in Conns : \E f \in StoreFiles : \E id \in 1..(diffSeq + 1) :
        /\ (id <= diffSeq => history[id].file = f)
        /\ Spend("other")
        /\ OnUndo(conn, f, id)
        /\ UNCHANGED <<sweepAt, clientVars>>

StoreFileDelete ==
    \E conn \in Conns : IsConnected(conn) /\
        \E f \in StoreFiles :
            /\ Spend("other")
            /\ OnFileDelete(conn, [file |-> f, author |-> NameOf(conn)])
            /\ UNCHANGED <<sweepAt, clientVars>>

NextStore ==
    \/ StoreFileDiff
    \/ StoreFullFile
    \/ StoreUndo
    \/ StoreFileDelete

SpecStore == InitStore /\ [][NextStore]_vars

\* ------------------------------------------------- claims on SpecStore
\* the diff the relay stored for a file just before the one with this id
PreviousFor(id) ==
    LET older == { i \in 1..(id - 1) : history[i].file = history[id].file }
    IN IF older = {} THEN NoRow
       ELSE history[CHOOSE i \in older : \A k \in older : k <= i]

ConflictsEmitted ==
    { i \in 1..Len(ev.out) : ev.out[i].event = "file:conflict" }

\* the file:diff handled last met a version mismatch and overlaps the diff
\* received just before it for the same file
OverlapsPrevious ==
    /\ ev.op = "file:diff"
    /\ PreviousFor(diffSeq) # NoRow
    /\ ev.seen # NoRow
    /\ ev.seen.hash # ev.arg.previousVersion
    /\ checkOverlap(extractPatchRanges(PreviousFor(diffSeq).patch),
                    extractPatchRanges(ev.arg.patch))

\* C2: a file:diff that overlaps the previously received diff of its file
\* and arrives on a version mismatch records and broadcasts exactly one
\* ConflictEvent, naming the earlier diff's author and the incoming diff's
\* author, however many older diffs the file has.
C2_ConflictCompleteness ==
    OverlapsPrevious =>
        /\ Len(conflicts) = ev.conflictsBefore + 1
        /\ Cardinality(ConflictsEmitted) = 1
        /\ \A i \in ConflictsEmitted :
              /\ ev.out[i].to = "all"
              /\ ev.out[i].payload = conflicts[Len(conflicts)]
        /\ conflicts[Len(conflicts)].file = ev.arg.file
        /\ conflicts[Len(conflicts)].authorA = PreviousFor(diffSeq).author
        /\ conflicts[Len(conflicts)].authorB = ev.arg.author

\* C6: right after the relay handled a file:diff d, the FileVersion row of
\* d.file carries d.version.
C6_VersionCoherence ==
    ev.op = "file:diff" =>
        /\ RowsOf(file_versions, ev.arg.file) # {}
        /\ \A r \in RowsOf(file_versions, ev.arg.file) : r.hash = ev.arg.version

\* a conflicting file:diff has just been handled: it arrived on a version
\* mismatch and a ConflictEvent went out with it
C6_Witness ==
    /\ ev.op = "file:diff"
    /\ ConflictsEmitted # {}
    /\ ev.seen # NoRow
    /\ ev.seen.hash # ev.arg.previousVersion

NewestStored(f) ==
    CHOOSE r \in RowsOf(diffs, f) : \A x \in RowsOf(diffs, f) : x.id <= r.id

\* C9 as claimed: for every file with a stored diff, the FileVersion hash is
\* the version of the most recently stored diff of that file.
C9_VersionIsNewestDiff ==
    \A f \in Files :
        RowsOf(diffs, f) # {} =>
            \A r \in RowsOf(file_versions, f) : r.hash = NewestStored(f).version

\* C9 as amended: for every file, the FileVersion hash is the hash carried by
\* the file:diff (its version) or sync:full-file (its hash) the relay handled
\* last for that file; diff:undo and file:delete leave it as it is, and a file
\* that got neither message has no FileVersion row.
C9_VersionIsLastHash ==
    \A f \in Files :
        /\ lastHash[f] = Absent => RowsOf(file_versions, f) = {}
        /\ lastHash[f] # Absent =>
              /\ RowsOf(file_versions, f) # {}
              /\ \A r \in RowsOf(file_versions, f) : r.hash = lastHash[f]

\* a sync:full-file has just overwritten the version a stored diff had set
C9_Witness ==
    /\ ev.op = "sync:full-file"
    /\ \E f \in Files :
          /\ RowsOf(diffs, f) # {}
          /\ lastHash[f] # NewestStored(f).version

\* C20: a diff:undo naming a stored diff id makes the relay send one file:diff
\* to every connection, the sender included, whose patch is the stored patch,
\* whose version is the stored previous_version, whose previousVersion is the
\* stored version, whose author is the caller and whose type is human; a
\* diff:undo naming an id that is not stored emits nothing.
C20_UndoBroadcast ==
    ev.op = "diff:undo" =>
        LET named == { r \in diffs : r.id = ev.arg.diffId }
        IN /\ named = {} => ev.out = << >>
           /\ \A d \in named :
                 /\ Len(ev.out) = 1
                 /\ ev.out[1].event = "file:diff"
                 /\ ev.out[1].to = "all"
                 /\ ev.out[1].payload.file = d.file
                 /\ ev.out[1].payload.patch = d.patch
                 /\ ev.out[1].payload.version = d.previousVersion
                 /\ ev.out[1].payload.previousVersion = d.version
                 /\ ev.out[1].payload.author = NameOf(ev.conn)
                 /\ ev.out[1].payload.type = "human"
                 /\ ev.out[1].payload.timestamp = now

\* a diff:undo has just named a stored diff of another author that moved the
\* file from one version to a different one, while diffs are stored
C20_Witness ==
    /\ ev.op = "diff:undo"
    /\ ev.out # << >>
    /\ \E d \in diffs :
          /\ d.id = ev.arg.diffId
          /\ d.version # d.previousVersion
          /\ d.author # NameOf(ev.conn)

\* C24: when the relay runs the conflict detector for an incoming diff, the
\* diff it compares against is the most recent stored diff of that file (the
\* one stored last, which has the greatest timestamp), however many diffs of
\* the file are stored.
C24_ExistingIsMostRecent ==
    (ev.op = "file:diff" /\ ev.existing # NoRow) => ev.existing = PreviousFor(diffSeq)

\* C25: the conflict detector runs only on a version mismatch.  For a
\* file:diff whose previousVersion is the hash of the file's FileVersion row,
\* and for one whose file has no FileVersion row yet, the detector is not
\* run and no ConflictEvent is recorded or broadcast.
C25_OnlyOnMismatch ==
    (/\ ev.op = "file:diff"
     /\ \/ ev.seen = NoRow
        \/ ev.seen.hash = ev.arg.previousVersion)
    => /\ ev.existing = NoRow
       /\ Len(conflicts) = ev.conflictsBefore
       /\ ConflictsEmitted = {}

\* a diff that started from the FileVersion hash has been let through though
\* its patch overlaps the diff stored before it, and earlier a diff on a
\* mismatch was reported as a conflict
C25_Witness ==
    /\ ev.op = "file:diff"
    /\ ev.seen # NoRow
    /\ ev.seen.hash = ev.arg.previousVersion
    /\ PreviousFor(diffSeq) # NoRow
    /\ checkOverlap(extractPatchRanges(PreviousFor(diffSeq).patch),
                    extractPatchRanges(ev.arg.patch))
    /\ Len(conflicts) = 1
    /\ ConflictsEmitted = {}

\* C37: undo leaves the relay state unchanged.  Handling diff:undo changes
\* neither the stored diffs, nor the FileVersion table, nor the lock table,
\* nor the conflicts: after it the FileVersion hash of the file is the one
\* it was before, whatever version the broadcast undo diff carries.
C37_UndoFrame ==
    [][ ev'.op = "diff:undo" =>
          /\ diffs' = diffs
          /\ diffSeq' = diffSeq
          /\ file_versions' = file_versions
          /\ conflicts' = conflicts
          /\ inMemoryLocks' = inMemoryLocks
          /\ dbLocks' = dbLocks ]_vars

\* an undo has just been broadcast whose version is not the FileVersion hash
\* the relay holds for the file
C37_Witness ==
    /\ ev.op = "diff:undo"
    /\ ev.out # << >>
    /\ \E fv \in file_versions :
          /\ fv.file = ev.out[1].payload.file
          /\ fv.hash # ev.out[1].payload.version
          /\ fv.hash = ev.out[1].payload.previousVersion

\* ============================================================== SpecHistory
\* The diff store at the retention bound.  One client first sends Prefill
\* diffs of foo.txt with increasing timestamps; after that every diff goes to
\* either file and is stamped either with the sender's current clock or with
\* 0, the stamp of a diff that waited in an offline queue.
Prefill == MAX_DIFF_HISTORY - 2

HistoryInputs(conn) ==
    { [file |-> f, patch |-> <<Hunk(1, Absent)>>, author |-> NameOf(conn),
       type |-> "human", timestamp |-> t,
       version |-> 1 + (diffSeq % 2), previousVersion |-> 2 - (diffSeq % 2)] :
      f \in IF diffSeq < Prefill THEN {"foo.txt"} ELSE Files,
      t \in IF diffSeq < Prefill THEN {diffSeq + 1} ELSE {0, diffSeq + 1} }

InitHistory ==
    /\ diffs = {}
    /\ diffSeq = 0
    /\ file_versions = {}
    /\ conflicts = << >>
    /\ dbLocks = {}
    /\ inMemoryLocks = {}
    /\ connectedClients = { [id |-> "s1", name |-> "A"] }
    /\ now = 0
    /\ ev = [op |-> "connection", conn |-> "s1", arg |-> "A", out |-> << >>]
    /\ history = << >>
    /\ lastHash = [f \in Files |-> Absent]
    /\ sweepAt = SWEEP_INTERVAL_MS
    /\ budget = [diff |-> Prefill + MaxExtra, other |-> 0]
    /\ ClientsInit

HistoryFileDiff ==
    \E d \in HistoryInputs("s1") :
        /\ Spend("diff")
        /\ OnFileDiff("s1", d)
        /\ UNCHANGED <<sweepAt, clientVars>>

NextHistory == HistoryFileDiff

SpecHistory == InitHistory /\ [][NextHistory]_vars

\* ----------------------------------------------- claims on SpecHistory
ReceivedFor(f) == { i \in 1..Len(history) : history[i].file = f }

StoredIds(f) == { r.id : r \in RowsOf(diffs, f) }

\* C7: after every storeDiff no file has more than MAX_DIFF_HISTORY stored
\* diffs, and the only rows a storeDiff deletes are rows of the file it stored.
C7_HistoryBound ==
    [][ /\ \A f \in Files : Cardinality(RowsOf(diffs', f)) <= MAX_DIFF_HISTORY
        /\ \A r \in diffs : r \notin diffs' => r.file = ev'.arg.file ]_vars

\* foo.txt has received more diffs than the bound and is held at the bound,
\* while notes has stored diffs as well
C7_Witness ==
    /\ Cardinality(ReceivedFor("foo.txt")) > MAX_DIFF_HISTORY
    /\ Cardinality(RowsOf(diffs, "foo.txt")) = MAX_DIFF_HISTORY
    /\ RowsOf(diffs, "notes") # {}
    /\ ev.op = "file:diff"
    /\ ev.arg.file = "foo.txt"

\* C8: the diffs stored for a file are the most recently received diffs of
\* that file: no received diff is missing while an older one (lower id) is
\* still stored, whatever timestamps the clients supplied.
C8_HistoryIsSuffix ==
    \A f \in Files :
        \A i \in ReceivedFor(f) : \A j \in StoredIds(f) :
            i > j => i \in StoredIds(f)

\* C36: a stored diff stays retrievable.  Right after the relay has stored a
\* diff and sent it on under its id, the store holds the row of that id, as
\* received, whatever timestamps the new diff and the stored ones carry.
C36_StoredStaysRetrievable ==
    [][ (ev'.op = "file:diff" /\ diffSeq' = diffSeq + 1) =>
            \E r \in diffs' : r.id = diffSeq' /\ r = history'[diffSeq'] ]_vars

\* ================================================================= SpecLock
\* The relay's lock table: clients connect (two may use the same name), lock,
\* unlock, delete, rename and disconnect; the sweeper fires every
\* SWEEP_INTERVAL_MS; the relay process may restart on its database.
InitLock ==
    /\ RelayInit
    /\ budget = [lock |-> MaxLockOps, restart |-> MaxRestarts, sockets |-> <<"s1", "s2", "s3">>]
    /\ ClientsInit

\* A quiet stretch of half a lock lifetime: no message arrives, and the sweeps
\* that fall strictly inside it find nothing expired; the sweep at its end is
\* LockSweep.  The clock is followed only while a lock exists, since nothing
\* else reads it.
Tick ==
    /\ inMemoryLocks # {} \/ dbLocks # {}
    /\ now < sweepAt
    /\ now < MaxTicks * (LOCK_EXPIRY_MS \div 2)
    /\ now' = now + (LOCK_EXPIRY_MS \div 2)
    /\ \A e \in inMemoryLocks : (now' - SWEEP_INTERVAL_MS) - e.since < LOCK_EXPIRY_MS
    /\ sweepAt' = now'
    /\ UNCHANGED <<diffs, diffSeq, file_versions, conflicts, dbLocks, inMemoryLocks,
                   connectedClients, ev, history, lastHash, budget, clientVars>>

\* socket ids are never reused: the next connection gets the next unused id
LockConnect ==
    \E clientName \in Names :
        /\ budget.sockets # << >>
        /\ OnConnection(Head(budget.sockets), clientName)
        /\ budget' = [budget EXCEPT !.sockets = Tail(@)]
        /\ UNCHANGED <<sweepAt, clientVars>>

LockFileLock ==
    \E conn \in Conns : \E f \in Files : \E lockType \in LockTypes :
        /\ Spend("lock")
        /\ OnFileLock(conn, f, lockType)
        /\ UNCHANGED <<sweepAt, clientVars>>

LockFileUnlock ==
    \E conn \in Conns : \E f \in Files :
        /\ Spend("lock")
        /\ OnFileUnlock(conn, f)
        /\ UNCHANGED <<sweepAt, clientVars>>

LockFileDelete ==
    \E conn \in Conns : IsConnected(conn) /\
        \E f \in Files :
            /\ Spend("lock")
            /\ OnFileDelete(conn, [file |-> f, author |-> NameOf(conn)])
            /\ UNCHANGED <<sweepAt, clientVars>>

LockFileRename ==
    \E conn \in Conns : IsConnected(conn) /\
        \E f \in Files : \E g \in Files \ {f} :
            /\ Spend("lock")
            /\ OnFileRename(conn, [oldFile |-> f, newFile |-> g, author |-> NameOf(conn)])
            /\ UNCHANGED <<sweepAt, clientVars>>

LockDisconnect ==
    \E conn \in Conns :
        /\ OnDisconnect(conn)
        /\ UNCHANGED <<sweepAt, budget, clientVars>>

LockSweep ==
    /\ now >= sweepAt
    /\ OnSweep
    /\ sweepAt' = sweepAt + SWEEP_INTERVAL_MS
    /\ UNCHANGED <<budget, clientVars>>

LockRestart ==
    /\ Spend("restart")
    /\ OnRestart
    /\ sweepAt' = now + SWEEP_INTERVAL_MS
    /\ UNCHANGED clientVars

NextLock ==
    \/ Tick
    \/ LockConnect
    \/ LockFileLock
    \/ LockFileUnlock
    \/ LockFileDelete
    \/ LockFileRename
    \/ LockDisconnect
    \/ LockSweep
    \/ LockRestart

SpecLock == InitLock /\ [][NextLock]_vars

\* -------------------------------------------------- claims on SpecLock
\* C10: the in-memory lock table and the persisted locks table each hold at
\* most one lock per file.
C10_LockExclusivity ==
    \A f \in Files :
        /\ Cardinality(RowsOf(inMemoryLocks, f)) <= 1
        /\ Cardinality(RowsOf(dbLocks, f)) <= 1

\* a client has just taken over a file whose expired lock another holder
\* still had in the table
C10_Witness ==
    /\ ev.op = "file:lock"
    /\ ev.result.success
    /\ ev.before # NoRow
    /\ ev.before.lockedBy # ev.name
    /\ RowsOf(inMemoryLocks, ev.arg.file) # {}
    /\ RowsOf(dbLocks, ev.arg.file) # {}

\* a file:lock message has just been handled
LockHandled == ev'.op = "file:lock" /\ budget'.lock < budget.lock

\* C11: a file:lock for a file on which a different holder has a lock younger
\* than LOCK_EXPIRY_MS fails, returns that lock, and leaves the in-memory
\* table and the persisted table as they were.
C11_NoTakeoverBeforeExpiry ==
    [][ LET existing == Lookup(inMemoryLocks, ev'.arg.file)
        IN (/\ LockHandled
            /\ existing # NoRow
            /\ existing.lockedBy # ev'.name
            /\ now - existing.since < LOCK_EXPIRY_MS)
           => /\ ~ev'.result.success
              /\ ev'.result.existingLock = existing
              /\ inMemoryLocks' = inMemoryLocks
              /\ dbLocks' = dbLocks ]_vars

\* a client has just been refused a file that another holder locked some
\* time ago, and the lock is still in both tables with its old values
C11_Witness ==
    /\ ev.op = "file:lock"
    /\ ~ev.result.success
    /\ ev.before # NoRow
    /\ ev.before.lockedBy # ev.name
    /\ now > ev.before.since
    /\ ev.before \in inMemoryLocks
    /\ LockState(ev.before) \in dbLocks

\* C12: a file:lock for a file whose lock another holder took LOCK_EXPIRY_MS
\* or longer ago succeeds, swept or not, and afterwards the one lock on the
\* file is the sender's, with since = now and the sender's socket id in
\* memory, and with the same holder, type and since in the locks table.
C12_ExpiredTakeover ==
    [][ LET existing == Lookup(inMemoryLocks, ev'.arg.file)
            lock == [file |-> ev'.arg.file, lockedBy |-> ev'.name,
                     lockType |-> ev'.arg.lockType, since |-> now',
                     socketId |-> ev'.conn]
        IN (/\ LockHandled
            /\ existing # NoRow
            /\ existing.lockedBy # ev'.name
            /\ now - existing.since >= LOCK_EXPIRY_MS)
           => /\ ev'.result.success
              /\ RowsOf(inMemoryLocks', ev'.arg.file) = { lock }
              /\ RowsOf(dbLocks', ev'.arg.file) = { LockState(lock) } ]_vars

\* the sweep that would remove an expired lock is due but has not run, and
\* another client has taken the file over
C12_Witness ==
    /\ ev.op = "file:lock"
    /\ ev.result.success
    /\ ev.before # NoRow
    /\ ev.before.lockedBy # ev.name
    /\ now - ev.before.since >= LOCK_EXPIRY_MS
    /\ now >= sweepAt
    /\ \E e \in inMemoryLocks :
          e.file = ev.arg.file /\ e.lockedBy = ev.name /\ e.since = now /\ e.socketId = ev.conn

\* the disconnect of a connected socket has just been handled
DisconnectHandled ==
    /\ ev'.op = "disconnect"
    /\ IsConnected(ev'.conn)
    /\ connectedClients' # connectedClients

\* C14: after the disconnect of connection c of the client named n, neither
\* table holds a lock of holder n, the in-memory table holds no lock bound
\* to c, c has no ClientInfo, and file:lock-changed was broadcast, with the
\* remaining locks, exactly when the disconnect released a lock.
C14_ReleaseOnDisconnect ==
    [][ DisconnectHandled =>
          LET c == ev'.conn
              n == NameOf(c)
          IN /\ ev'.arg = n
             /\ \A e \in inMemoryLocks' : e.lockedBy # n /\ e.socketId # c
             /\ \A r \in dbLocks' : r.lockedBy # n
             /\ \A i \in connectedClients' : i.id # c
             /\ inMemoryLocks' # inMemoryLocks => ev'.out = << broadcastLocks(inMemoryLocks') >>
             /\ inMemoryLocks' = inMemoryLocks => ev'.out = << >> ]_vars

\* a client that held a lock has disconnected while a lock of another holder
\* stays, and the table was broadcast
C14_Witness ==
    /\ ev.op = "disconnect"
    /\ ev.out = << broadcastLocks(inMemoryLocks) >>
    /\ inMemoryLocks # {}
    /\ \A e \in inMemoryLocks : e.lockedBy # ev.arg
    /\ \A i \in connectedClients : i.id # ev.conn

\* C26: a file:lock for a file whose lock the sender's name already holds
\* succeeds, expired or not; afterwards the file has one lock in memory,
\* held by that name, with since = now, the requested type and the calling
\* connection's socket id, and the locks table has the same holder, type and
\* since for the file; the locks of other files are untouched.
C26_SameHolderRefresh ==
    [][ LET existing == Lookup(inMemoryLocks, ev'.arg.file)
        IN (/\ LockHandled
            /\ existing # NoRow
            /\ existing.lockedBy = ev'.name)
           => /\ ev'.result.success
              /\ RowsOf(inMemoryLocks', ev'.arg.file) =
                    { [file |-> ev'.arg.file, lockedBy |-> ev'.name,
                       lockType |-> ev'.arg.lockType, since |-> now',
                       socketId |-> ev'.conn] }
              /\ RowsOf(dbLocks', ev'.arg.file) =
                    { [file |-> ev'.arg.file, lockedBy |-> ev'.name,
                       lockType |-> ev'.arg.lockType, since |-> now'] }
              /\ \A f \in Files \ {ev'.arg.file} :
                    /\ RowsOf(inMemoryLocks', f) = RowsOf(inMemoryLocks, f)
                    /\ RowsOf(dbLocks', f) = RowsOf(dbLocks, f) ]_vars

\* a second connection of the holder's name has just asked again, with the
\* other lock type, for a lock that had expired and not yet been swept
C26_Witness ==
    /\ ev.op = "file:lock"
    /\ ev.result.success
    /\ ev.before # NoRow
    /\ ev.before.lockedBy = ev.name
    /\ ev.before.socketId # ev.conn
    /\ ev.before.lockType # ev.arg.lockType
    /\ now - ev.before.since >= LOCK_EXPIRY_MS
    /\ \E l \in inMemoryLocks : l.file = ev.arg.file /\ l.since = now /\ l.socketId = ev.conn

\* a file:unlock message has just been handled
UnlockHandled == ev'.op = "file:unlock" /\ budget'.lock < budget.lock

\* C27: a file:unlock from a client whose name is not the holder of the
\* file's lock leaves the in-memory table and the locks table as they were,
\* and so does one for a file that has no lock; from the holder it removes
\* the file's entry from both tables and nothing else.
C27_UnlockScoped ==
    [][ UnlockHandled =>
          LET existing == Lookup(inMemoryLocks, ev'.arg.file)
          IN IF existing # NoRow /\ existing.lockedBy = NameOf(ev'.conn)
             THEN /\ inMemoryLocks' = inMemoryLocks \ { existing }
                  /\ dbLocks' = { r \in dbLocks : r.file # ev'.arg.file }
                  /\ RowsOf(inMemoryLocks', ev'.arg.file) = {}
             ELSE /\ inMemoryLocks' = inMemoryLocks
                  /\ dbLocks' = dbLocks ]_vars

\* a client has just asked to unlock a file that another name holds, and the
\* lock is still in both tables
C27_Witness ==
    /\ ev.op = "file:unlock"
    /\ \E l \in inMemoryLocks :
          /\ l.file = ev.arg.file
          /\ l.lockedBy # NameOf(ev.conn)
          /\ [file |-> l.file, lockedBy |-> l.lockedBy, lockType |-> l.lockType,
              since |-> l.since] \in dbLocks

\* C32: lock table mirroring.  In every state the relay is in between two
\* handlers, so after every lock operation (acquire, release, release for a
\* client, sweep, restore), the persisted locks table holds exactly the
\* in-memory locks, each with the same file, holder, type and since and
\* without the connection id, and nothing else.
C32_LockMirror ==
    dbLocks = { [file |-> e.file, lockedBy |-> e.lockedBy, lockType |-> e.lockType,
                 since |-> e.since] : e \in inMemoryLocks }

\* a disconnect has just released the lock of one client while the lock of
\* another client stays, in memory and in the table
C32_Witness ==
    /\ ev.op = "disconnect"
    /\ ev.out # << >>
    /\ inMemoryLocks # {}
    /\ dbLocks # {}

\* C34: a lock survives unrelated disconnects.  The disconnect of a connection
\* removes no lock that has not expired and is bound to another connection
\* that is still connected.
C34_LockSurvivesOtherDisconnect ==
    [][ DisconnectHandled =>
          \A e \in inMemoryLocks :
              ( /\ e.socketId # ev'.conn
                /\ IsConnected(e.socketId)
                /\ now - e.since < LOCK_EXPIRY_MS ) =>
                    /\ e \in inMemoryLocks'
                    /\ \E r \in dbLocks' : r.file = e.file /\ r.lockedBy = e.lockedBy ]_vars

\* ================================================================ SpecSweep
\* The same lock table with the clock followed in steps of half a sweep
\* interval, so that locks are taken between two sweeps as well as at them.
SweepStep == SWEEP_INTERVAL_MS \div 2

\* time passes while a lock exists, and during the first sweep interval; a
\* sweep that is due runs before the clock moves on
SweepTick ==
    /\ inMemoryLocks # {} \/ dbLocks # {} \/ now < SWEEP_INTERVAL_MS
    /\ now < sweepAt
    /\ now' = now + SweepStep
    /\ UNCHANGED <<diffs, diffSeq, file_versions, conflicts, dbLocks, inMemoryLocks,
                   connectedClients, ev, history, lastHash, sweepAt, budget, clientVars>>

\* two sockets to hand out
InitSweep ==
    /\ RelayInit
    /\ budget = [lock |-> MaxLockOps, restart |-> MaxRestarts, sockets |-> <<"s1", "s2">>]
    /\ ClientsInit

\* the lock type plays no part in expiry: every lock is an editing lock
SweepFileLock ==
    \E conn \in Conns : \E f \in Files :
        /\ Spend("lock")
        /\ OnFileLock(conn, f, "editing")
        /\ UNCHANGED <<sweepAt, clientVars>>

NextSweep ==
    \/ SweepTick
    \/ LockConnect
    \/ SweepFileLock
    \/ LockSweep
    \/ LockRestart

SpecSweep == InitSweep /\ [][NextSweep]_vars

\* -------------------------------------------------- claims on SpecSweep
\* the rows of a lock table that have reached LOCK_EXPIRY_MS
Expired(table) == { r \in table : now - r.since >= LOCK_EXPIRY_MS }

\* a sweep has just run
SweepHandled == ev'.op = "sweep" /\ sweepAt' # sweepAt

\* C13: no lock stays in the in-memory table or in the locks table longer
\* than LOCK_EXPIRY_MS + SWEEP_INTERVAL_MS after its since value; a sweep
\* leaves no expired lock in either table; and the sweep broadcasts
\* file:lock-changed, with the remaining locks, exactly when it removed a lock.
C13_BoundedLifetime ==
    /\ [](\A r \in inMemoryLocks \cup dbLocks :
             now - r.since <= LOCK_EXPIRY_MS + SWEEP_INTERVAL_MS)
    /\ [][ SweepHandled =>
             /\ Expired(inMemoryLocks') = {} /\ Expired(dbLocks') = {}
             /\ ev'.arg = { r.file : r \in Expired(inMemoryLocks) }
             /\ ev'.arg # {} => ev'.out = << broadcastLocks(inMemoryLocks') >>
             /\ ev'.arg = {} => ev'.out = << >> ]_vars

\* a sweep has just removed an expired lock and broadcast the table, in which
\* a lock taken between two sweeps is left
C13_Witness ==
    /\ ev.op = "sweep"
    /\ ev.arg # {}
    /\ ev.out = << broadcastLocks(inMemoryLocks) >>
    /\ sweepAt > now
    /\ \E e \in inMemoryLocks : e.since % SWEEP_INTERVAL_MS # 0

\* ============================================================ the CLI client
relayState == <<diffs, diffSeq, file_versions, conflicts, dbLocks, inMemoryLocks,
                connectedClients, now, ev, history, lastHash, sweepAt>>

Packet(event, payload) == [event |-> event, payload |-> payload]

RECURSIVE ProducedBy(_)
ProducedBy(cs) ==
    IF cs = {} THEN 0
    ELSE LET c == CHOOSE x \in cs : TRUE IN obs[c].produced + ProducedBy(cs \ {c})

\* Date.now() at a client: the clients' clocks agree and no two diffs are
\* made in the same millisecond
ClientClock == 1 + ProducedBy(Names)

\* ------------------------------------------------------------ agentDetector
\* recordWrite looking at the last two writes only
recordWrite_twoWrites(c, rapid) ==
    LET run == IF rapid THEN Min(rapidWrites[c] + 1, AI_BURST_COUNT - 1) ELSE 0
    IN /\ rapidWrites' = [rapidWrites EXCEPT ![c] = run]
       /\ burstMode' = [burstMode EXCEPT ![c] = @ \/ run >= 1]

\* recordWrite; rapid says that this write came less than
\* AI_BURST_THRESHOLD_MS after the one before
recordWrite(c, rapid) ==
    LET run == IF rapid THEN Min(rapidWrites[c] + 1, AI_BURST_COUNT - 1) ELSE 0
    IN /\ rapidWrites' = [rapidWrites EXCEPT ![c] = run]
       /\ burstMode' = [burstMode EXCEPT ![c] = @ \/ run >= AI_BURST_COUNT - 1]

\* getAuthorType
getAuthorType(c) == IF burstMode[c] THEN "ai" ELSE "human"

\* getCurrentDebounce, on the burstMode it reads
getCurrentDebounce(mode, normalDebounce, burstDebounce) ==
    IF mode THEN burstDebounce ELSE normalDebounce

\* a burstTimeout callback that leaves burstMode as it is
OnBurstTimeout_keeps(c) ==
    UNCHANGED <<disk, fileContents, fileVersions, pendingDiffs, applyingIncoming,
                guardTimers, debounceTimers, changeEvents, socket, sendBuffer,
                autoLockTimers, burstMode, rapidWrites, toRelay, fromRelay, obs>>

\* the burstTimeout callback of recordWrite
OnBurstTimeout(c) ==
    /\ burstMode' = [burstMode EXCEPT ![c] = FALSE]
    /\ UNCHANGED <<disk, fileContents, fileVersions, pendingDiffs, applyingIncoming,
                   guardTimers, debounceTimers, changeEvents, socket, sendBuffer,
                   autoLockTimers, rapidWrites, toRelay, fromRelay, obs>>

\* --------------------------------------------------------------- syncClient
\* what sendDiff reads and writes, with the record of what it emitted and queued
OutState(c) ==
    [connected |-> socket[c] # NoSocket, toRelay |-> toRelay[c],
     pendingDiffs |-> pendingDiffs[c], fileVersions |-> fileVersions[c],
     emitted |-> obs[c].emitted, queued |-> obs[c].queued]

\* sendDiff
sendDiff(st, d) ==
    IF ~st.connected
    THEN [st EXCEPT !.pendingDiffs = Append(@, d), !.queued = Append(@, d.timestamp)]
    ELSE [st EXCEPT !.toRelay = Append(@, Packet("file:diff", d)),
                    !.fileVersions = d.version,
                    !.emitted = Append(@, d.timestamp)]

\* toSend.forEach(d => sendDiff(d))
RECURSIVE sendAll(_, _, _)
sendAll(st, toSend, i) ==
    IF i > Len(toSend) THEN st ELSE sendAll(sendDiff(st, toSend[i]), toSend, i + 1)

\* handleIncomingDiff that takes the version of the diff whatever the outcome
handleIncomingDiff_diffVersion(st, diff) ==
    { [disk |-> r.result,
       fileVersions |-> diff.version,
       guardTimers |-> st.guardTimers + 1] :
      r \in applyPatch(st.disk, diff.patch) }

\* handleIncomingDiff on the file and version the client has: the possible outcomes
handleIncomingDiff(st, diff) ==
    { [disk |-> r.result,
       fileVersions |-> IF r.success THEN diff.version ELSE hashContent(r.result),
       guardTimers |-> st.guardTimers + 1] :
      r \in applyPatch(st.disk, diff.patch) }

\* for (const diff of response.missingDiffs) handleIncomingDiff(diff)
RECURSIVE handleAll(_, _, _)
handleAll(sts, missingDiffs, i) ==
    IF i > Len(missingDiffs) THEN sts
    ELSE handleAll(UNION { handleIncomingDiff(st, missingDiffs[i]) : st \in sts },
                   missingDiffs, i + 1)

InState(c) == [disk |-> disk[c], fileVersions |-> fileVersions[c], guardTimers |-> guardTimers[c]]

\* socket.on('file:diff') at the client
OnIncomingDiff(c) ==
    /\ fromRelay[c] # << >>
    /\ Head(fromRelay[c]).event = "file:diff"
    /\ \E st \in handleIncomingDiff(InState(c), Head(fromRelay[c]).payload) :
          /\ disk' = [disk EXCEPT ![c] = st.disk]
          /\ fileVersions' = [fileVersions EXCEPT ![c] = st.fileVersions]
          /\ guardTimers' = [guardTimers EXCEPT ![c] = st.guardTimers]
    /\ applyingIncoming' = [applyingIncoming EXCEPT ![c] = TRUE]
    /\ changeEvents' = [changeEvents EXCEPT ![c] = TRUE]
    /\ fromRelay' = [fromRelay EXCEPT ![c] = Tail(@)]
    /\ obs' = [obs EXCEPT ![c].arrived =
                   IF "id" \in DOMAIN Head(fromRelay[c]).payload
                   THEN Head(fromRelay[c]).payload.id ELSE @,
                          ![c].applied =
                   IF "id" \in DOMAIN Head(fromRelay[c]).payload
                   THEN @ \cup { Head(fromRelay[c]).payload.id } ELSE @]
    /\ UNCHANGED <<fileContents, pendingDiffs, debounceTimers, socket, sendBuffer,
                   autoLockTimers, burstMode, rapidWrites, toRelay>>

\* the replay list of performHandshake, newest first
toSend_reversed(pending) == [i \in 1..Len(pending) |-> pending[Len(pending) + 1 - i]]

\* const toSend = [...pendingDiffs]
toSend(pending) == pending

\* the callback performHandshake gives to sync:handshake
OnHandshakeResponse(c) ==
    /\ fromRelay[c] # << >>
    /\ Head(fromRelay[c]).event = "ack"
    /\ LET response == Head(fromRelay[c]).payload
           any == response.missingDiffs # << >>
       IN \E st \in handleAll({ InState(c) }, response.missingDiffs, 1) :
             LET out == sendAll([OutState(c) EXCEPT !.pendingDiffs = << >>,
                                                    !.fileVersions = st.fileVersions],
                                toSend(pendingDiffs[c]), 1)
             IN /\ disk' = [disk EXCEPT ![c] = st.disk]
                /\ guardTimers' = [guardTimers EXCEPT ![c] = st.guardTimers]
                /\ applyingIncoming' = [applyingIncoming EXCEPT ![c] = @ \/ any]
                /\ changeEvents' = [changeEvents EXCEPT ![c] = @ \/ any]
                /\ fileVersions' = [fileVersions EXCEPT ![c] = out.fileVersions]
                /\ pendingDiffs' = [pendingDiffs EXCEPT ![c] = out.pendingDiffs]
                /\ toRelay' = [toRelay EXCEPT ![c] = out.toRelay]
                /\ obs' = [obs EXCEPT ![c].emitted = out.emitted,
                                      ![c].queued = out.queued,
                                      ![c].handshaken = TRUE,
                                      ![c].applied = @ \cup
                                          { response.missingDiffs[i].id :
                                              i \in 1..Len(response.missingDiffs) }]
    /\ fromRelay' = [fromRelay EXCEPT ![c] = Tail(@)]
    /\ UNCHANGED <<fileContents, debounceTimers, socket, sendBuffer,
                   autoLockTimers, burstMode, rapidWrites>>

\* a release timer that fires without clearing the guard
OnGuardTimer_keeps(c) ==
    /\ guardTimers[c] > 0
    /\ guardTimers' = [guardTimers EXCEPT ![c] = @ - 1]
    /\ UNCHANGED <<disk, fileContents, fileVersions, pendingDiffs, applyingIncoming,
                   debounceTimers, changeEvents, socket, sendBuffer, autoLockTimers,
                   burstMode, rapidWrites, toRelay, fromRelay, obs>>

\* the setTimeout(() => { applyingIncoming = false; }, 200) of an incoming write
OnGuardTimer(c) ==
    /\ guardTimers[c] > 0
    /\ guardTimers' = [guardTimers EXCEPT ![c] = @ - 1]
    /\ applyingIncoming' = [applyingIncoming EXCEPT ![c] = FALSE]
    /\ UNCHANGED <<disk, fileContents, fileVersions, pendingDiffs, debounceTimers,
                   changeEvents, socket, sendBuffer, autoLockTimers, burstMode,
                   rapidWrites, toRelay, fromRelay, obs>>

\* ------------------------------------------------------------------ watcher
\* watcher.on('change')
OnChange(c, rapid) ==
    /\ changeEvents[c]
    /\ changeEvents' = [changeEvents EXCEPT ![c] = FALSE]
    /\ IF applyingIncoming[c]
       THEN UNCHANGED <<debounceTimers, burstMode, rapidWrites>>
       ELSE /\ recordWrite(c, rapid)
            /\ debounceTimers' = [debounceTimers EXCEPT ![c] = TRUE]
    /\ UNCHANGED <<disk, fileContents, fileVersions, pendingDiffs, applyingIncoming,
                   guardTimers, socket, sendBuffer, autoLockTimers, toRelay,
                   fromRelay, obs>>

\* lockClient socket.emit: a disconnected socket keeps the packet in its send buffer
EmitOrBuffer(c, packets) ==
    IF socket[c] # NoSocket
    THEN /\ toRelay' = [toRelay EXCEPT ![c] = @ \o packets]
         /\ UNCHANGED sendBuffer
    ELSE /\ sendBuffer' = [sendBuffer EXCEPT ![c] = @ \o packets]
         /\ UNCHANGED toRelay

\* processFileChange
processFileChange(c) ==
    LET newContent == disk[c]
        oldContent == fileContents[c]
        diff == [file |-> SyncFile, patch |-> createPatch(oldContent, newContent),
                 author |-> c, type |-> getAuthorType(c), timestamp |-> ClientClock,
                 version |-> hashContent(newContent),
                 previousVersion |-> hashContent(oldContent)]
        lock == Packet("file:lock",
                       [file |-> SyncFile,
                        lockType |-> IF getAuthorType(c) = "ai" THEN "ai-writing"
                                     ELSE "editing"])
        out == sendDiff([OutState(c) EXCEPT !.toRelay = << >>], diff)
    IN IF ~hasActualChanges(oldContent, newContent)
       THEN UNCHANGED <<fileContents, fileVersions, pendingDiffs, sendBuffer,
                        autoLockTimers, toRelay, obs>>
       ELSE /\ EmitOrBuffer(c, << lock >> \o out.toRelay)
            /\ autoLockTimers' = [autoLockTimers EXCEPT ![c] = TRUE]
            /\ pendingDiffs' = [pendingDiffs EXCEPT ![c] = out.pendingDiffs]
            /\ fileVersions' = [fileVersions EXCEPT ![c] = out.fileVersions]
            /\ fileContents' = [fileContents EXCEPT ![c] = newContent]
            /\ obs' = [obs EXCEPT ![c].produced = @ + 1,
                                  ![c].emitted = out.emitted,
                                  ![c].queued = out.queued]

\* the debounce timer of watcher.on('change') fires
OnDebounceTimer(c) ==
    /\ debounceTimers[c]
    /\ debounceTimers' = [debounceTimers EXCEPT ![c] = FALSE]
    /\ processFileChange(c)
    /\ UNCHANGED <<disk, applyingIncoming, guardTimers, changeEvents, socket,
                   burstMode, rapidWrites, fromRelay>>

\* the auto-release timer of emitEditLock fires: releaseLock
OnAutoLockTimer(c) ==
    /\ autoLockTimers[c]
    /\ autoLockTimers' = [autoLockTimers EXCEPT ![c] = FALSE]
    /\ EmitOrBuffer(c, << Packet("file:unlock", [file |-> SyncFile]) >>)
    /\ UNCHANGED <<disk, fileContents, fileVersions, pendingDiffs, applyingIncoming,
                   guardTimers, debounceTimers, changeEvents, socket, burstMode,
                   rapidWrites, fromRelay, obs>>

\* ================================================================= SpecSync
\* Two CLI clients, A and B, and the relay, on one file.  The relay runs on
\* the database of an earlier session, which holds one diff of the file (B
\* had set region 2 back to 0); both clients started on the content that
\* session ended with, have connected and have had their (empty) handshake
\* response.  No time is followed: a timer that is pending may fire at any
\* moment and a packet in flight may arrive at any moment, within a stretch
\* shorter than the auto-release of an edit lock; writes come more than
\* AI_BURST_THRESHOLD_MS apart.  SpecOffline follows one client through
\* connection drops.
SyncSockets == <<"s1", "s2", "s3", "s4">>

SyncGaps == { FALSE }

EarlierDiff ==
    [id |-> 1, file |-> SyncFile,
     patch |-> << [start |-> 2, count |-> Absent, old |-> 1, new |-> 0] >>,
     author |-> "B", type |-> "human", timestamp |-> 0,
     version |-> hashContent(InitContent), previousVersion |-> hashContent(<<0, 1>>)]

\* the relay on the database of the earlier session
RelayEarlier ==
    /\ diffs = { EarlierDiff }
    /\ diffSeq = 1
    /\ file_versions = { [file |-> SyncFile, hash |-> EarlierDiff.version, timestamp |-> 0] }
    /\ conflicts = << >>
    /\ dbLocks = {}
    /\ inMemoryLocks = {}
    /\ now = 1
    /\ history = << EarlierDiff >>
    /\ lastHash = [f \in Files |-> IF f = SyncFile THEN EarlierDiff.version ELSE Absent]
    /\ sweepAt = now + SWEEP_INTERVAL_MS

\* the clients have scanned their directories
ClientsScanned ==
    /\ disk = [c \in Names |-> InitContent]
    /\ fileContents = [c \in Names |-> InitContent]
    /\ fileVersions = [c \in Names |-> hashContent(InitContent)]
    /\ pendingDiffs = [c \in Names |-> << >>]
    /\ applyingIncoming = [c \in Names |-> FALSE]
    /\ guardTimers = [c \in Names |-> 0]
    /\ debounceTimers = [c \in Names |-> FALSE]
    /\ changeEvents = [c \in Names |-> FALSE]
    /\ sendBuffer = [c \in Names |-> << >>]
    /\ autoLockTimers = [c \in Names |-> FALSE]
    /\ burstMode = [c \in Names |-> FALSE]
    /\ rapidWrites = [c \in Names |-> 0]
    /\ toRelay = [c \in Names |-> << >>]
    /\ fromRelay = [c \in Names |-> << >>]
    /\ timing = [c \in Names |-> TimingInit]

InitSync ==
    /\ RelayEarlier
    /\ ClientsScanned
    /\ connectedClients = { [id |-> "s1", name |-> "A"], [id |-> "s2", name |-> "B"] }
    /\ socket = [c \in Names |-> IF c = "A" THEN "s1" ELSE "s2"]
    /\ ev = [op |-> "sync:handshake", conn |-> "s2",
             arg |-> [clientId |-> "s2", projectId |-> "project",
                      fileVersions |-> (SyncFile :> hashContent(InitContent))],
             out |-> << Emit("ack", "s2", [missingDiffs |-> << >>, fullFiles |-> << >>,
                                           locks |-> {}]) >>]
    /\ obs = [c \in Names |-> [localEdits |-> 0, produced |-> 0, emitted |-> << >>,
                                queued |-> << >>, handshaken |-> TRUE, awayFrom |-> Absent,
                                arrived |-> 0, applied |-> {}]]
    /\ budget = [edits |-> MaxEdits, clients |-> Names]

\* the user of client c saves the file with one region changed
LocalEdit ==
    \E c \in budget.clients : \E i \in 1..2 :
        /\ Spend("edits")
        /\ disk' = [disk EXCEPT ![c][i] = 1 - @]
        /\ changeEvents' = [changeEvents EXCEPT ![c] = TRUE]
        /\ obs' = [obs EXCEPT ![c].localEdits = @ + 1]
        /\ UNCHANGED <<relayState, timing>>
        /\ UNCHANGED <<fileContents, fileVersions, pendingDiffs, applyingIncoming,
                       guardTimers, debounceTimers, socket, sendBuffer, autoLockTimers,
                       burstMode, rapidWrites, toRelay, fromRelay>>

SyncChange ==
    \E c \in budget.clients : \E rapid \in SyncGaps :
        /\ OnChange(c, rapid)
        /\ UNCHANGED <<relayState, budget, timing>>

SyncDebounceTimer ==
    \E c \in budget.clients :
        /\ hasActualChanges(fileContents[c], disk[c]) => ProducedBy(Names) < MaxProduced
        /\ OnDebounceTimer(c)
        /\ UNCHANGED <<relayState, budget, timing>>

SyncGuardTimer ==
    \E c \in budget.clients :
        /\ OnGuardTimer(c)
        /\ UNCHANGED <<relayState, budget, timing>>

SyncAutoLockTimer ==
    \E c \in budget.clients :
        /\ OnAutoLockTimer(c)
        /\ UNCHANGED <<relayState, budget, timing>>

SyncIncomingDiff ==
    \E c \in budget.clients :
        /\ OnIncomingDiff(c)
        /\ UNCHANGED <<relayState, budget, timing>>

SyncHandshakeResponse ==
    \E c \in budget.clients :
        /\ OnHandshakeResponse(c)
        /\ UNCHANGED <<relayState, budget, timing>>

\* the client's socket connects: the relay's 'connection', then at the client
\* the send buffer is flushed and 'connect' runs performHandshake
SyncConnect ==
    \E c \in budget.clients :
        /\ socket[c] = NoSocket
        /\ budget.sockets # << >>
        /\ OnConnection(Head(budget.sockets), c)
        /\ budget' = [budget EXCEPT !.sockets = Tail(@)]
        /\ socket' = [socket EXCEPT ![c] = Head(budget.sockets)]
        /\ toRelay' = [toRelay EXCEPT ![c] =
               sendBuffer[c] \o << Packet("sync:handshake",
                                          [clientId |-> Head(budget.sockets),
                                           projectId |-> "project",
                                           fileVersions |-> (SyncFile :> fileVersions[c])]) >>]
        /\ sendBuffer' = [sendBuffer EXCEPT ![c] = << >>]
        /\ UNCHANGED <<disk, fileContents, fileVersions, pendingDiffs, applyingIncoming,
                       guardTimers, debounceTimers, changeEvents, autoLockTimers,
                       burstMode, rapidWrites, fromRelay, obs, sweepAt, timing>>

\* the connection drops: the relay's 'disconnect'; what was in flight is lost
SyncDisconnect ==
    \E c \in budget.clients :
        /\ socket[c] # NoSocket
        /\ Spend("drops")
        /\ OnDisconnect(socket[c])
        /\ socket' = [socket EXCEPT ![c] = NoSocket]
        /\ toRelay' = [toRelay EXCEPT ![c] = << >>]
        /\ fromRelay' = [fromRelay EXCEPT ![c] = << >>]
        /\ obs' = [obs EXCEPT ![c].handshaken = FALSE,
                              ![c].awayFrom = IF fromRelay[c] = << >> THEN diffSeq ELSE Absent]
        /\ UNCHANGED <<disk, fileContents, fileVersions, pendingDiffs, applyingIncoming,
                       guardTimers, debounceTimers, changeEvents, sendBuffer,
                       autoLockTimers, burstMode, rapidWrites, sweepAt, timing>>

\* the relay takes the next packet of client c off the connection
Arrives(c, event) ==
    /\ toRelay[c] # << >>
    /\ Head(toRelay[c]).event = event
    /\ toRelay' = [toRelay EXCEPT ![c] = Tail(@)]

clientState == <<disk, fileContents, fileVersions, pendingDiffs, applyingIncoming,
                 guardTimers, debounceTimers, changeEvents, socket, sendBuffer,
                 autoLockTimers, burstMode, rapidWrites, obs, timing>>

\* a broadcast that reaches the sender too
Broadcast_all(c, packet) ==
    [x \in Names |-> IF socket[x] # NoSocket /\ IsConnected(socket[x])
                     THEN Append(fromRelay[x], packet) ELSE fromRelay[x]]

\* socket.broadcast.emit: to every connected client but the sender
Broadcast(c, packet) ==
    [x \in Names |-> IF x # c /\ socket[x] # NoSocket /\ IsConnected(socket[x])
                     THEN Append(fromRelay[x], packet) ELSE fromRelay[x]]

SyncRelayFileDiff ==
    \E c \in budget.clients :
        /\ Arrives(c, "file:diff")
        /\ OnFileDiff(socket[c], Head(toRelay[c]).payload)
        /\ fromRelay' = Broadcast(c, Packet("file:diff", insertDiff(Head(toRelay[c]).payload)))
        /\ UNCHANGED <<clientState, sweepAt, budget>>

SyncRelayFileLock ==
    \E c \in budget.clients :
        /\ Arrives(c, "file:lock")
        /\ OnFileLock(socket[c], Head(toRelay[c]).payload.file,
                      Head(toRelay[c]).payload.lockType)
        /\ UNCHANGED <<clientState, fromRelay, sweepAt, budget>>

SyncRelayFileUnlock ==
    \E c \in budget.clients :
        /\ Arrives(c, "file:unlock")
        /\ OnFileUnlock(socket[c], Head(toRelay[c]).payload.file)
        /\ UNCHANGED <<clientState, fromRelay, sweepAt, budget>>

SyncRelayHandshake ==
    \E c \in budget.clients :
        /\ Arrives(c, "sync:handshake")
        /\ \E missingDiffs \in MissingDiffs(file_versions, Head(toRelay[c]).payload.fileVersions) :
              LET response == [missingDiffs |-> missingDiffs, fullFiles |-> << >>,
                               locks |-> getAllLocks(inMemoryLocks)]
              IN /\ OnHandshake(socket[c], Head(toRelay[c]).payload, response)
                 /\ fromRelay' = [fromRelay EXCEPT ![c] = Append(@, Packet("ack", response))]
        /\ UNCHANGED <<clientState, sweepAt, budget>>

NextSync ==
    \/ LocalEdit
    \/ SyncChange
    \/ SyncDebounceTimer
    \/ SyncGuardTimer
    \/ SyncIncomingDiff
    \/ SyncRelayFileDiff
    \/ SyncRelayFileLock

SpecSync == InitSync /\ [][NextSync]_vars

\* --------------------------------------------------- claims on SpecSync
\* nothing is in flight and no timer is pending at any client
Settled ==
    \A c \in Names :
        /\ toRelay[c] = << >>
        /\ fromRelay[c] = << >>
        /\ ~changeEvents[c]
        /\ ~debounceTimers[c]
        /\ guardTimers[c] = 0

\* A and B each made one edit and sent one diff for it, both from the content
\* of fingerprint h0 the session started with, and the two patches touch
\* disjoint ranges; the relay has stored both
DisjointPair ==
    /\ \A c \in Names : obs[c].localEdits = 1 /\ obs[c].produced = 1
    /\ Len(history) = 3
    /\ history[2].author # history[3].author
    /\ history[2].previousVersion = hashContent(InitContent)
    /\ history[3].previousVersion = hashContent(InitContent)
    /\ ~checkOverlap(extractPatchRanges(history[2].patch),
                     extractPatchRanges(history[3].patch))

\* C1: when A and B, holding the same content h0, each send one diff from h0
\* and the patches touch disjoint ranges, then once the relay has handled
\* both and every broadcast has been applied, A and B hold the same content
\* and no ConflictEvent has been recorded.
C1_Convergence ==
    (DisjointPair /\ Settled) =>
        /\ disk["A"] = disk["B"]
        /\ conflicts = << >>

\* C3: a client emits or queues no more diffs than its user made edits: an
\* incoming diff never makes it produce one.
C3_NoEcho ==
    \A c \in Names : obs[c].produced <= obs[c].localEdits

\* C5: whenever a client has no debounce timer pending and its guard is
\* clear, fileVersions is the fingerprint of the cached fileContents.
C5_CacheCoherence ==
    \A c \in Names :
        (~debounceTimers[c] /\ ~applyingIncoming[c]) =>
            fileVersions[c] = hashContent(fileContents[c])


\* the relay has just taken a file:diff of client c off the connection
DiffReceived(c) ==
    /\ toRelay[c] # << >>
    /\ Head(toRelay[c]).event = "file:diff"
    /\ toRelay'[c] = Tail(toRelay[c])

\* C23: locks are advisory.  Whatever the lock table holds, and whoever holds
\* the lock of the file, a file:diff the relay receives is stored under the
\* next id, sets the FileVersion and goes to the other client, and the
\* handler leaves the lock table, in memory and in the database, as it was.
C23_LocksAdvisory ==
    [][ \A c \in Names :
          DiffReceived(c) =>
             LET d == Head(toRelay[c]).payload
                 row == [id |-> diffSeq + 1, file |-> d.file, patch |-> d.patch,
                         author |-> d.author, type |-> d.type, timestamp |-> d.timestamp,
                         version |-> d.version, previousVersion |-> d.previousVersion]
             IN /\ inMemoryLocks' = inMemoryLocks
                /\ dbLocks' = dbLocks
                /\ history' = Append(history, row)
                /\ row \in diffs'
                /\ getFileVersion(file_versions', d.file).hash = d.version
                /\ \A x \in Names \ {c} :
                      fromRelay'[x] = Append(fromRelay[x], Packet("file:diff", row)) ]_vars

\* B asked for the lock while A held it and was refused, and the diff B sent
\* next has been stored and sent on to A, with A still the holder
C23_Witness ==
    /\ ev.op = "file:diff"
    /\ ev.conn = socket["B"]
    /\ \E l \in inMemoryLocks : l.file = SyncFile /\ l.lockedBy = "A"
    /\ \E r \in diffs : r.id = diffSeq /\ r.author = "B"
    /\ fromRelay["A"] # << >>
    /\ fromRelay["A"][Len(fromRelay["A"])].payload.id = diffSeq

\* C40: a conflict involves two authors.  Every recorded ConflictEvent names
\* two different authors: the diff of a client is never reported as
\* conflicting with a stored diff of the same client.
C40_TwoAuthors ==
    \A i \in 1..Len(conflicts) : conflicts[i].authorA # conflicts[i].authorB

\* ============================================================== SpecOffline
\* Client A alone with the relay, through connection drops: A starts
\* disconnected, edits, connects, performs the handshake and replays.
InitOffline ==
    /\ RelayEarlier
    /\ ClientsScanned
    /\ connectedClients = {}
    /\ socket = [c \in Names |-> NoSocket]
    /\ ev = [op |-> "start", conn |-> NoSocket, arg |-> NoRow, out |-> << >>]
    /\ obs = [c \in Names |-> [localEdits |-> 0, produced |-> 0, emitted |-> << >>,
                                queued |-> << >>, handshaken |-> FALSE, awayFrom |-> Absent,
                                arrived |-> 0, applied |-> {}]]
    /\ budget = [edits |-> MaxEdits, drops |-> MaxDrops, clients |-> {"A"},
                 sockets |-> SubSeq(SyncSockets, 1, MaxDrops + 1)]

NextOffline ==
    \/ LocalEdit
    \/ SyncChange
    \/ SyncDebounceTimer
    \/ SyncGuardTimer
    \/ SyncAutoLockTimer
    \/ SyncHandshakeResponse
    \/ SyncConnect
    \/ SyncDisconnect
    \/ SyncRelayFileDiff
    \/ SyncRelayFileLock
    \/ SyncRelayFileUnlock
    \/ SyncRelayHandshake

SpecOffline == InitOffline /\ [][NextOffline]_vars

\* ------------------------------------------------ claims on SpecOffline
TimestampsOf(ds) == [i \in 1..Len(ds) |-> ds[i].timestamp]

\* C4: the diffs given to sendDiff while disconnected are, in the order they
\* were produced, first those already emitted (each once) and then those
\* still in pendingDiffs; once the handshake response of a connection has
\* been handled, none is left in pendingDiffs.
C4_OfflineDurability ==
    \A c \in Names :
        /\ SelectSeq(obs[c].emitted, LAMBDA t : t \in SeqToSet(obs[c].queued))
               \o TimestampsOf(pendingDiffs[c]) = obs[c].queued
        /\ obs[c].handshaken => pendingDiffs[c] = << >>

\* A queued two diffs while disconnected, the connection it replayed them on
\* has dropped, and both had been emitted, in order, before that
C4_Witness ==
    /\ Len(obs["A"].queued) = 2
    /\ obs["A"].emitted = obs["A"].queued
    /\ pendingDiffs["A"] = << >>
    /\ socket["A"] = NoSocket
    /\ budget.drops < MaxDrops

\* C35: per-client send order.  The relay receives the file:diff messages of
\* one client for one file in the order the client produced them: of two
\* diffs of one author in the order of receipt, the later was made later.
C35_SendOrder ==
    \A i, j \in 1..Len(history) :
        ( /\ i < j
          /\ history[i].author = history[j].author
          /\ history[i].file = history[j].file ) =>
              history[i].timestamp < history[j].timestamp

\* ============================================================== SpecCatchUp
\* Clients A and B and the relay, as in SpecSync; B's connection drops once
\* and comes back while A edits.  B's user makes no edit.
InitCatchUp ==
    /\ RelayEarlier
    /\ ClientsScanned
    /\ connectedClients = { [id |-> "s1", name |-> "A"], [id |-> "s2", name |-> "B"] }
    /\ socket = [c \in Names |-> IF c = "A" THEN "s1" ELSE "s2"]
    /\ ev = [op |-> "sync:handshake", conn |-> "s2",
             arg |-> [clientId |-> "s2", projectId |-> "project",
                      fileVersions |-> (SyncFile :> hashContent(InitContent))],
             out |-> << Emit("ack", "s2", [missingDiffs |-> << >>, fullFiles |-> << >>,
                                           locks |-> {}]) >>]
    /\ obs = [c \in Names |-> [localEdits |-> 0, produced |-> 0, emitted |-> << >>,
                                queued |-> << >>, handshaken |-> TRUE, awayFrom |-> Absent,
                                arrived |-> 0, applied |-> {}]]
    /\ budget = [edits |-> MaxEdits, drops |-> 1, clients |-> Names,
                 sockets |-> << "s3" >>]

CatchUpEdit == LocalEdit /\ disk'["B"] = disk["B"]

CatchUpDisconnect == SyncDisconnect /\ socket'["A"] = socket["A"]

NextCatchUp ==
    \/ CatchUpEdit
    \/ SyncChange
    \/ SyncDebounceTimer
    \/ SyncGuardTimer
    \/ SyncIncomingDiff
    \/ SyncHandshakeResponse
    \/ SyncConnect
    \/ CatchUpDisconnect
    \/ SyncRelayFileDiff
    \/ SyncRelayFileLock
    \/ SyncRelayHandshake

SpecCatchUp == InitCatchUp /\ [][NextCatchUp]_vars

\* ------------------------------------------------ claims on SpecCatchUp
\* the relay has just answered the handshake of client c, which had gone
\* offline with nothing in flight to it
HandshakeAnswered(c) ==
    /\ ev'.op = "sync:handshake"
    /\ Len(fromRelay'[c]) = Len(fromRelay[c]) + 1
    /\ fromRelay'[c][Len(fromRelay'[c])].event = "ack"
    /\ obs[c].awayFrom # Absent

\* client c has just applied the response, and nothing more is on its way to it
ResponseApplied(c) ==
    /\ obs'[c].handshaken /\ ~obs[c].handshaken
    /\ obs[c].awayFrom # Absent
    /\ fromRelay'[c] = << >>

\* the diffs the relay stored while client c was away
StoredWhileAway(c) == { r \in diffs : r.id > obs[c].awayFrom }

\* C18: the response to the handshake of a client that comes back with the
\* fileVersions it went offline with, and made no edit meanwhile, holds
\* exactly the diffs the relay stored while it was away; when the client has
\* applied it, its fileVersions of the file is the relay's FileVersion hash.
C18_CatchUp ==
    [][ \A c \in Names :
          /\ HandshakeAnswered(c) =>
                LET m == fromRelay'[c][Len(fromRelay'[c])].payload.missingDiffs
                IN /\ SeqToSet(m) = StoredWhileAway(c)
                   /\ Len(m) = Cardinality(StoredWhileAway(c))
          /\ ResponseApplied(c) =>
                fileVersions'[c] = getFileVersion(file_versions, SyncFile).hash ]_vars

\* the relay has just handled a file:diff
DiffHandled == ev'.op = "file:diff" /\ diffSeq' = diffSeq + 1

\* C21: every file:diff the relay receives is inserted into the store under
\* the next id, sets the FileVersion of its file, and is sent exactly once,
\* with that id, to every other connected client and not to the sender,
\* whether or not a conflict was reported for it.
C21_StoreAndRelay ==
    [][ DiffHandled =>
          LET d == ev'.arg
              row == [id |-> diffSeq', file |-> d.file, patch |-> d.patch,
                      author |-> d.author, type |-> d.type, timestamp |-> d.timestamp,
                      version |-> d.version, previousVersion |-> d.previousVersion]
              sent == { i \in 1..Len(ev'.out) : ev'.out[i].event = "file:diff" }
          IN /\ history' = Append(history, row)
             /\ { r \in diffs' : r.id = row.id } = { row }
             /\ { r.hash : r \in RowsOf(file_versions', d.file) } = { d.version }
             /\ Cardinality(sent) = 1
             /\ \A i \in sent : ev'.out[i].to = "others" /\ ev'.out[i].payload = row
             /\ \A x \in Names :
                   IF socket[x] # NoSocket /\ socket[x] # ev'.conn
                   THEN fromRelay'[x] = Append(fromRelay[x], Packet("file:diff", row))
                   ELSE fromRelay'[x] = fromRelay[x] ]_vars

\* the relay reported a conflict for the diff it handled last, stored the
\* diff and sent it to the other client, while nothing went to the sender
C21_Witness ==
    /\ ev.op = "file:diff"
    /\ Len(ev.out) = 2
    /\ ev.out[1].event = "file:conflict"
    /\ \E r \in diffs : r.id = diffSeq /\ r.author = NameOf(ev.conn)
    /\ \E x \in Names :
          /\ socket[x] # NoSocket /\ socket[x] # ev.conn
          /\ fromRelay[x] # << >>
          /\ fromRelay[x][Len(fromRelay[x])].payload.id = diffSeq
    /\ \A x \in Names : socket[x] = ev.conn => fromRelay[x] = << >>

\* a file:diff the relay re-broadcast has just arrived at client c
DiffArrived(c) ==
    /\ fromRelay[c] # << >>
    /\ fromRelay'[c] = Tail(fromRelay[c])
    /\ Head(fromRelay[c]).event = "file:diff"
    /\ "id" \in DOMAIN Head(fromRelay[c]).payload

\* the store ids of the file:diff messages on their way to client c, in order
RECURSIVE IdsInFlight(_)
IdsInFlight(q) ==
    IF q = << >> THEN << >>
    ELSE (IF q[1].event = "file:diff" /\ "id" \in DOMAIN q[1].payload
          THEN << q[1].payload.id >> ELSE << >>) \o IdsInFlight(Tail(q))

\* C22: the file:diff messages the relay re-broadcasts to a client arrive in
\* strictly increasing store id, which is the order in which the relay
\* received them, whoever sent them: what arrives has a greater id than
\* everything that arrived before and a smaller one than everything still
\* on its way, and the relay hands out ids in the order of receipt.
C22_BroadcastOrder ==
    [][ /\ \A c \in Names :
             DiffArrived(c) =>
                /\ Head(fromRelay[c]).payload.id > obs[c].arrived
                /\ Head(fromRelay[c]).payload = history[Head(fromRelay[c]).payload.id]
                /\ \A i \in 1..Len(IdsInFlight(fromRelay'[c])) :
                      IdsInFlight(fromRelay'[c])[i] > Head(fromRelay[c]).payload.id
        /\ DiffHandled => Len(history') = diffSeq' /\ history'[diffSeq'].id = diffSeq' ]_vars

\* the relay received three diffs from A, B and A in turn; the second has
\* arrived at A and the third at B
C22_Witness ==
    /\ obs["B"].arrived = 4
    /\ obs["A"].arrived = 3
    /\ history[2].author = "A" /\ history[3].author = "B" /\ history[4].author = "A"

\* client c has just taken the response to its handshake off the connection
ResponseTaken(c) ==
    /\ fromRelay[c] # << >>
    /\ Head(fromRelay[c]).event = "ack"
    /\ fromRelay'[c] = Tail(fromRelay[c])

\* C33: no double application.  No client applies the stored diff of one id
\* more than once: a file:diff that arrives by broadcast has an id the
\* client has not applied, and the missingDiffs of a handshake response hold
\* no id twice and no id the client has applied.
C33_NoDoubleApplication ==
    [][ \A c \in Names :
          /\ DiffArrived(c) => Head(fromRelay[c]).payload.id \notin obs[c].applied
          /\ ResponseTaken(c) =>
                LET m == Head(fromRelay[c]).payload.missingDiffs
                IN /\ \A i \in 1..Len(m) : m[i].id \notin obs[c].applied
                   /\ \A i, j \in 1..Len(m) : i # j => m[i].id # m[j].id ]_vars

\* ============================================================ SpecHandshake
\* The relay's diff ingest on two files, and one sync:handshake of a client
\* that reports, for each file, a hash or none.
HandshakeDiffInputs(conn) ==
    { [file |-> f, patch |-> << Hunk(1, Absent) >>, author |-> NameOf(conn),
       type |-> "human", timestamp |-> diffSeq + 1, version |-> v,
       previousVersion |-> pv] :
      f \in Files, v \in Hashes, pv \in Hashes }

HandshakeInputs(conn) ==
    { [clientId |-> conn, projectId |-> "project", fileVersions |-> fv] :
      fv \in UNION { [S -> Hashes] : S \in SUBSET Files } }

HandshakeFileDiff ==
    \E conn \in Conns : IsConnected(conn) /\
        \E d \in HandshakeDiffInputs(conn) :
            /\ d.version # d.previousVersion
            /\ Spend("diff")
            /\ OnFileDiff(conn, d)
            /\ UNCHANGED <<sweepAt, clientVars>>

HandshakeRequest ==
    \E conn \in Conns : \E data \in HandshakeInputs(conn) :
        \E missingDiffs \in MissingDiffs(file_versions, data.fileVersions) :
            /\ Spend("other")
            /\ OnHandshake(conn, data, [missingDiffs |-> missingDiffs, fullFiles |-> << >>,
                                        locks |-> getAllLocks(inMemoryLocks)])
            /\ UNCHANGED <<sweepAt, clientVars>>

NextHandshake ==
    \/ HandshakeFileDiff
    \/ HandshakeRequest

SpecHandshake == InitStore /\ [][NextHandshake]_vars

\* ---------------------------------------------- claims on SpecHandshake
\* C17: in the response to a sync:handshake the diffs of each file stand in
\* missingDiffs by increasing id, whether the client reported a hash for the
\* file or none.
C17_HandshakeOrder ==
    ev.op = "sync:handshake" =>
        LET m == ev.out[1].payload.missingDiffs
        IN \A i \in 1..Len(m) : \A j \in 1..Len(m) :
              (i < j /\ m[i].file = m[j].file) => m[i].id < m[j].id

\* ================================================================ SpecAgent
\* Client A alone, connected, with the time of its agent detector followed:
\* the user or an agent writes the file, with or without a change of content,
\* chokidar reports the writes, and the debounce timer and burstTimeout fire
\* when they are due.  The relay does not take part, and the stretch is
\* shorter than the auto-release of an edit lock.
AgentGap == AI_BURST_THRESHOLD_MS \div 2

InitAgent ==
    /\ RelayEarlier
    /\ ClientsScanned
    /\ connectedClients = { [id |-> "s1", name |-> "A"], [id |-> "s2", name |-> "B"] }
    /\ socket = [c \in Names |-> IF c = "A" THEN "s1" ELSE "s2"]
    /\ ev = [op |-> "sync:handshake", conn |-> "s2",
             arg |-> [clientId |-> "s2", projectId |-> "project",
                      fileVersions |-> (SyncFile :> hashContent(InitContent))],
             out |-> << Emit("ack", "s2", [missingDiffs |-> << >>, fullFiles |-> << >>,
                                           locks |-> {}]) >>]
    /\ obs = [c \in Names |-> [localEdits |-> 0, produced |-> 0, emitted |-> << >>,
                                queued |-> << >>, handshaken |-> TRUE, awayFrom |-> Absent,
                                arrived |-> 0, applied |-> {}]]
    /\ budget = [edits |-> MaxWrites, clients |-> {"A"}]

\* the file is written with the content it has
AgentSave ==
    \E c \in budget.clients :
        /\ Spend("edits")
        /\ changeEvents' = [changeEvents EXCEPT ![c] = TRUE]
        /\ UNCHANGED <<relayState, timing>>
        /\ UNCHANGED <<disk, fileContents, fileVersions, pendingDiffs, applyingIncoming,
                       guardTimers, debounceTimers, socket, sendBuffer, autoLockTimers,
                       burstMode, rapidWrites, toRelay, fromRelay, obs>>

\* time passes: AgentGap, or the time to the next timer; a timer that is
\* due fires before the clock moves on
AgentTick ==
    \E c \in budget.clients :
        LET t == timing[c]
            pending == { t.debounce, t.burst } \ { Absent }
            steps == { AgentGap } \cup pending \cup
                     (IF pending = {} THEN { BURST_TIMEOUT_MS - t.sinceWrite } ELSE {})
            quiet(d) == t.sinceWrite + d >= BURST_TIMEOUT_MS
        IN \E d \in steps :
              /\ d > 0
              /\ \A r \in pending : d <= r
              /\ pending # {} \/ t.sinceWrite < BURST_TIMEOUT_MS
              /\ timing' = [timing EXCEPT ![c] =
                     [t EXCEPT !.sinceWrite = Min(@ + d, BURST_TIMEOUT_MS),
                               !.debounce = IF @ = Absent THEN @ ELSE @ - d,
                               !.burst = IF @ = Absent THEN @ ELSE @ - d,
                               !.silent = @ \/ quiet(d),
                               !.fresh = @ /\ ~quiet(d)]]
              /\ UNCHANGED <<relayState, budget>>
              /\ UNCHANGED <<disk, fileContents, fileVersions, pendingDiffs,
                             applyingIncoming, guardTimers, debounceTimers, changeEvents,
                             socket, sendBuffer, autoLockTimers, burstMode, rapidWrites,
                             toRelay, fromRelay, obs>>

\* chokidar's 'change': timers that are due run first (the event itself comes
\* from a poll timer of awaitWriteFinish armed later than they were)
AgentChange ==
    \E c \in budget.clients :
        LET t == timing[c]
        IN /\ t.debounce # 0 /\ t.burst # 0
           /\ OnChange(c, t.sinceWrite < AI_BURST_THRESHOLD_MS)
           /\ timing' = [timing EXCEPT ![c] =
                  IF applyingIncoming[c] THEN t
                  ELSE LET three == rapidWrites'[c] >= AI_BURST_COUNT - 1
                       IN [t EXCEPT !.sinceWrite = 0,
                                    !.debounce = getCurrentDebounce(burstMode'[c], DEBOUNCE_MS,
                                                                    AI_BURST_DEBOUNCE_MS),
                                    !.burst = BURST_TIMEOUT_MS,
                                    !.rapid3 = @ \/ three,
                                    !.fresh = @ \/ three]]
           /\ UNCHANGED <<relayState, budget>>

AgentDebounceTimer ==
    \E c \in budget.clients :
        LET t == timing[c]
            made == obs'[c].produced > obs[c].produced
            n == Len(toRelay'[c])
        IN /\ t.debounce = 0
           /\ OnDebounceTimer(c)
           /\ timing' = [timing EXCEPT ![c] =
                  IF made
                  THEN [t EXCEPT !.debounce = Absent, !.silent = FALSE, !.rapid3 = FALSE,
                                 !.last = [type |-> toRelay'[c][n].payload.type,
                                           lockType |-> toRelay'[c][n - 1].payload.lockType,
                                           silent |-> t.silent, rapid3 |-> t.rapid3,
                                           fresh |-> t.fresh]]
                  ELSE [t EXCEPT !.debounce = Absent]]
           /\ UNCHANGED <<relayState, budget>>

AgentBurstTimeout ==
    \E c \in budget.clients :
        /\ timing[c].burst = 0
        /\ OnBurstTimeout(c)
        /\ timing' = [timing EXCEPT ![c].burst = Absent]
        /\ UNCHANGED <<relayState, budget>>

NextAgent ==
    \/ LocalEdit
    \/ AgentSave
    \/ AgentTick
    \/ AgentChange
    \/ AgentDebounceTimer
    \/ AgentBurstTimeout

SpecAgent == InitAgent /\ [][NextAgent]_vars

\* -------------------------------------------------- claims on SpecAgent
\* the last diff of client c went out as an agent's, with an agent's lock
AgentDiff(c) == timing[c].last.type = "ai" /\ timing[c].last.lockType = "ai-writing"

\* the last diff of client c went out as a human's, with an editing lock
HumanDiff(c) == timing[c].last.type = "human" /\ timing[c].last.lockType = "editing"

\* C15 as stated: the first diff a client makes after AI_BURST_COUNT recorded
\* writes, each less than AI_BURST_THRESHOLD_MS after the other, is an agent's
\* diff with an ai-writing lock.
C15_NextDiffIsAgent ==
    \A c \in Names :
        (timing[c].last # NoRow /\ timing[c].last.rapid3) => AgentDiff(c)

\* C15 amended: after AI_BURST_COUNT such writes the client is in burst mode
\* for as long as BURST_TIMEOUT_MS have not passed without a recorded write,
\* and a diff it makes in that time is an agent's diff with an ai-writing
\* lock; burst mode is entered only by a write that is the last of
\* AI_BURST_COUNT such writes.
C15_AgentWhileBurst ==
    /\ [](\A c \in Names :
             /\ timing[c].fresh => burstMode[c]
             /\ (timing[c].last # NoRow /\ timing[c].last.fresh) => AgentDiff(c))
    /\ [][ \A c \in Names :
             (~burstMode[c] /\ burstMode'[c]) =>
                 /\ rapidWrites'[c] >= AI_BURST_COUNT - 1
                 /\ timing[c].sinceWrite < AI_BURST_THRESHOLD_MS
                 /\ timing'[c].sinceWrite = 0 ]_vars

\* the client is in burst mode and its last diff, made after the third of
\* three rapid writes, went out as an agent's
C15_Witness ==
    /\ burstMode["A"]
    /\ timing["A"].last # NoRow
    /\ timing["A"].last.rapid3
    /\ timing["A"].last.fresh
    /\ AgentDiff("A")

\* C16 as stated: the first diff a client makes after BURST_TIMEOUT_MS
\* without a recorded write is a human's diff with an editing lock.
C16_NextDiffIsHuman ==
    \A c \in Names :
        (timing[c].last # NoRow /\ timing[c].last.silent) => HumanDiff(c)

\* C16 amended: once BURST_TIMEOUT_MS have passed without a recorded write
\* (and burstTimeout has run) burst mode is off, and a diff made after that
\* is a human's diff with an editing lock unless AI_BURST_COUNT writes, each
\* less than AI_BURST_THRESHOLD_MS after the other, were recorded since.
C16_HumanAfterSilence ==
    \A c \in Names :
        /\ (timing[c].sinceWrite >= BURST_TIMEOUT_MS /\ timing[c].burst = Absent)
              => ~burstMode[c]
        /\ (timing[c].last # NoRow /\ ~timing[c].last.fresh) => HumanDiff(c)

\* the client made an agent's diff, then BURST_TIMEOUT_MS passed without a
\* write, and the diff it made after that went out as a human's
C16_Witness ==
    /\ timing["A"].last # NoRow
    /\ timing["A"].last.silent
    /\ ~timing["A"].last.fresh
    /\ HumanDiff("A")
    /\ \E i \in 1..Len(toRelay["A"]) :
          toRelay["A"][i].event = "file:diff" /\ toRelay["A"][i].payload.type = "ai"

\* ================================================================= SpecUndo
\* SpecSync with an undo.  Client A edits, the diffs travel as in SpecSync,
\* and once nothing is in flight and every client's copy of the file has the
\* version a stored diff produced, a connected client may ask the relay to
\* undo that diff.  The relay's file:diff goes to every connected client, the
\* caller included, and each applies it like any incoming diff.  Nobody edits
\* the file between the undo and the next diff the relay stores.
MaxUndos == 1

InitUndo ==
    /\ RelayEarlier
    /\ ClientsScanned
    /\ connectedClients = { [id |-> "s1", name |-> "A"], [id |-> "s2", name |-> "B"] }
    /\ socket = [c \in Names |-> IF c = "A" THEN "s1" ELSE "s2"]
    /\ ev = [op |-> "sync:handshake", conn |-> "s2",
             arg |-> [clientId |-> "s2", projectId |-> "project",
                      fileVersions |-> (SyncFile :> hashContent(InitContent))],
             out |-> << Emit("ack", "s2", [missingDiffs |-> << >>, fullFiles |-> << >>,
                                           locks |-> {}]) >>]
    /\ obs = [c \in Names |-> [localEdits |-> 0, produced |-> 0, emitted |-> << >>,
                                queued |-> << >>, handshaken |-> TRUE, awayFrom |-> Absent,
                                arrived |-> 0, applied |-> {}]]
    /\ budget = [edits |-> MaxEdits, clients |-> Names, undos |-> MaxUndos]

UndoEdit ==
    /\ ev.op # "diff:undo"
    /\ LocalEdit
    /\ disk'["B"] = disk["B"]

\* io.emit: to every connected client
BroadcastAll(packet) ==
    [x \in Names |-> IF socket[x] # NoSocket /\ IsConnected(socket[x])
                     THEN Append(fromRelay[x], packet) ELSE fromRelay[x]]

\* a connected client sends diff:undo and the relay handles it
UndoRequest ==
    \E c \in budget.clients : \E d \in RowsOf(diffs, SyncFile) :
        /\ socket[c] # NoSocket
        /\ Settled
        /\ \A x \in Names : hashContent(disk[x]) = d.version
        /\ Spend("undos")
        /\ OnUndo(socket[c], SyncFile, d.id)
        /\ fromRelay' = BroadcastAll(Packet("file:diff", ev'.out[1].payload))
        /\ UNCHANGED <<clientState, toRelay, sweepAt>>

NextUndo ==
    \/ UndoEdit
    \/ SyncChange
    \/ SyncDebounceTimer
    \/ SyncGuardTimer
    \/ SyncIncomingDiff
    \/ SyncRelayFileDiff
    \/ SyncRelayFileLock
    \/ UndoRequest

SpecUndo == InitUndo /\ [][NextUndo]_vars

\* --------------------------------------------------- claims on SpecUndo
\* the relay's last event is a diff:undo whose file:diff every client has applied
UndoApplied ==
    /\ ev.op = "diff:undo"
    /\ ev.out # << >>
    /\ \A c \in Names : fromRelay[c] = << >>

\* C19: when every client held the version v1 a stored diff d produced from
\* v0, and a diff:undo for d has been broadcast and applied on every client,
\* the fingerprint of each client's content of the file is v0, and so is the
\* fileVersions entry the client keeps for the file.
C19_UndoRoundTrip ==
    UndoApplied =>
        \A c \in Names :
            /\ hashContent(disk[c]) = ev.out[1].payload.version
            /\ fileVersions[c] = hashContent(disk[c])

\* ================================================================ SpecGuard
\* SpecSync with the clock of the guard.  A edits; the diffs reach B through
\* the relay, and what B sends back reaches A.  At each client the release
\* timers of the guard run on a clock that moves in steps of half the
\* release delay while one of them is pending; a timer fires when its delay
\* has passed, never earlier.
GuardStep == GUARD_RELEASE_MS \div 2

InitGuard == InitSync

GuardEdit == LocalEdit /\ disk'["B"] = disk["B"]

GuardTick ==
    /\ \E c \in Names : timing[c].guards # << >>
    /\ \A c \in Names : \A i \in 1..Len(timing[c].guards) : timing[c].guards[i] > 0
    /\ timing' = [c \in Names |->
           [timing[c] EXCEPT !.guards = [i \in 1..Len(@) |-> @[i] - GuardStep],
                             !.sinceApply = Min(@ + GuardStep, GUARD_RELEASE_MS)]]
    /\ UNCHANGED <<relayState, budget>>
    /\ UNCHANGED <<disk, fileContents, fileVersions, pendingDiffs, applyingIncoming,
                   guardTimers, debounceTimers, changeEvents, socket, sendBuffer,
                   autoLockTimers, burstMode, rapidWrites, toRelay, fromRelay, obs>>

GuardIncomingDiff ==
    \E c \in budget.clients :
        /\ OnIncomingDiff(c)
        /\ timing' = [timing EXCEPT ![c].guards = Append(@, GUARD_RELEASE_MS),
                                    ![c].sinceApply = 0]
        /\ UNCHANGED <<relayState, budget>>

GuardTimerFires ==
    \E c \in budget.clients :
        /\ timing[c].guards # << >>
        /\ Head(timing[c].guards) = 0
        /\ OnGuardTimer(c)
        /\ timing' = [timing EXCEPT ![c].guards = Tail(@)]
        /\ UNCHANGED <<relayState, budget>>

NextGuard ==
    \/ GuardEdit
    \/ GuardTick
    \/ SyncChange
    \/ SyncDebounceTimer
    \/ GuardIncomingDiff
    \/ GuardTimerFires
    \/ SyncRelayFileDiff
    \/ SyncRelayFileLock

SpecGuard == InitGuard /\ [][NextGuard]_vars

\* -------------------------------------------------- claims on SpecGuard
\* C28: for GUARD_RELEASE_MS after every application of an incoming message
\* the applyingIncoming guard of the client stays set, also when a second
\* message is applied before the release timer of the first has fired.
C28_GuardHold ==
    \A c \in Names :
        timing[c].sinceApply < GUARD_RELEASE_MS => applyingIncoming[c]

\* ================================================================ SpecBurst
\* The agent detector of client A over seconds: the file is written again
\* and again with the content it has, so that no diff is made, and between
\* two writes pass AgentGap, half of BURST_TIMEOUT_MS, or the time to the
\* next timer.
BurstStep == BURST_TIMEOUT_MS \div 2

InitBurst == InitAgent

BurstTick ==
    \E c \in budget.clients :
        LET t == timing[c]
            pending == { t.debounce, t.burst } \ { Absent }
            steps == { AgentGap, BurstStep } \cup pending
            quiet(d) == t.sinceWrite + d >= BURST_TIMEOUT_MS
        IN \E d \in steps :
              /\ d > 0
              /\ \A r \in pending : d <= r
              /\ pending # {}
              /\ timing' = [timing EXCEPT ![c] =
                     [t EXCEPT !.sinceWrite = Min(@ + d, BURST_TIMEOUT_MS),
                               !.sinceRapid = Min(@ + d, BURST_TIMEOUT_MS),
                               !.debounce = IF @ = Absent THEN @ ELSE @ - d,
                               !.burst = IF @ = Absent THEN @ ELSE @ - d,
                               !.silent = @ \/ quiet(d),
                               !.fresh = @ /\ ~quiet(d)]]
              /\ UNCHANGED <<relayState, budget>>
              /\ UNCHANGED <<disk, fileContents, fileVersions, pendingDiffs,
                             applyingIncoming, guardTimers, debounceTimers, changeEvents,
                             socket, sendBuffer, autoLockTimers, burstMode, rapidWrites,
                             toRelay, fromRelay, obs>>

BurstChange ==
    \E c \in budget.clients :
        LET t == timing[c]
            rapid == t.sinceWrite < AI_BURST_THRESHOLD_MS
        IN /\ t.debounce # 0 /\ t.burst # 0
           /\ OnChange(c, rapid)
           /\ timing' = [timing EXCEPT ![c] =
                  LET three == rapidWrites'[c] >= AI_BURST_COUNT - 1
                  IN [t EXCEPT !.sinceWrite = 0,
                               !.sinceRapid = IF rapid THEN 0 ELSE @,
                               !.debounce = getCurrentDebounce(burstMode'[c], DEBOUNCE_MS,
                                                               AI_BURST_DEBOUNCE_MS),
                               !.burst = BURST_TIMEOUT_MS,
                               !.rapid3 = @ \/ three,
                               !.fresh = @ \/ three]]
           /\ UNCHANGED <<relayState, budget>>

NextBurst ==
    \/ AgentSave
    \/ BurstTick
    \/ BurstChange
    \/ AgentDebounceTimer
    \/ AgentBurstTimeout

SpecBurst == InitBurst /\ [][NextBurst]_vars

\* -------------------------------------------------- claims on SpecBurst
\* C29: BURST_TIMEOUT_MS after the last rapid write the detector has left
\* burst mode (or the timer that ends it is due), also when writes that are
\* not rapid have been recorded since.
C29_BurstExit ==
    \A c \in Names :
        (timing[c].sinceRapid >= BURST_TIMEOUT_MS /\ timing[c].burst # 0) => ~burstMode[c]

\* ================================================================== SpecAdd
\* A fresh relay with A and B connected, and a watched directory that did not
\* hold the file when the initial scan of the clients completed.  The user
\* of A creates the file, empty or with text, and edits it; chokidar reports
\* 'add' once the file is written, and 'change' for the edits.  B stays
\* connected and does nothing.
NoFile == << >>

\* the empty file: no text in either region
EmptyContent == <<0, 0>>

AddContents == { EmptyContent, <<1, 0>> }

InitAdd ==
    /\ diffs = {}
    /\ diffSeq = 0
    /\ file_versions = {}
    /\ conflicts = << >>
    /\ dbLocks = {}
    /\ inMemoryLocks = {}
    /\ connectedClients = { [id |-> "s1", name |-> "A"], [id |-> "s2", name |-> "B"] }
    /\ now = 0
    /\ ev = [op |-> "connection", conn |-> "s2", arg |-> "B", out |-> << >>]
    /\ history = << >>
    /\ lastHash = [f \in Files |-> Absent]
    /\ sweepAt = SWEEP_INTERVAL_MS
    /\ disk = [c \in Names |-> NoFile]
    /\ fileContents = [c \in Names |-> NoFile]
    /\ fileVersions = [c \in Names |-> Absent]
    /\ pendingDiffs = [c \in Names |-> << >>]
    /\ applyingIncoming = [c \in Names |-> FALSE]
    /\ guardTimers = [c \in Names |-> 0]
    /\ debounceTimers = [c \in Names |-> FALSE]
    /\ changeEvents = [c \in Names |-> FALSE]
    /\ socket = [c \in Names |-> IF c = "A" THEN "s1" ELSE "s2"]
    /\ sendBuffer = [c \in Names |-> << >>]
    /\ autoLockTimers = [c \in Names |-> FALSE]
    /\ burstMode = [c \in Names |-> FALSE]
    /\ rapidWrites = [c \in Names |-> 0]
    /\ toRelay = [c \in Names |-> << >>]
    /\ fromRelay = [c \in Names |-> << >>]
    /\ timing = [c \in Names |-> TimingInit]
    /\ obs = [c \in Names |-> [localEdits |-> 0, produced |-> 0, emitted |-> << >>,
                                queued |-> << >>, handshaken |-> TRUE, awayFrom |-> Absent,
                                arrived |-> 0, applied |-> {}]]
    /\ budget = [edits |-> MaxEdits, clients |-> {"A"}]

\* watcher.on('add'): the file that has appeared on disk is read and cached
OnAdd(c) ==
    /\ fileContents' = [fileContents EXCEPT ![c] = disk'[c]]
    /\ fileVersions' = [fileVersions EXCEPT ![c] = hashContent(disk'[c])]
    /\ UNCHANGED <<pendingDiffs, applyingIncoming, guardTimers, debounceTimers,
                   changeEvents, socket, sendBuffer, autoLockTimers, burstMode,
                   rapidWrites, toRelay, fromRelay, obs>>

\* the user creates the file, and chokidar reports it
AddFile ==
    \E c \in budget.clients : \E content \in AddContents :
        /\ disk[c] = NoFile
        /\ disk' = [disk EXCEPT ![c] = content]
        /\ OnAdd(c)
        /\ UNCHANGED <<relayState, budget, timing>>

AddEdit == disk["A"] # NoFile /\ LocalEdit

AddDebounceTimer == disk["A"] # NoFile /\ SyncDebounceTimer

NextAdd ==
    \/ AddFile
    \/ AddEdit
    \/ SyncChange
    \/ AddDebounceTimer
    \/ SyncAutoLockTimer
    \/ SyncRelayFileDiff
    \/ SyncRelayFileLock
    \/ SyncRelayFileUnlock

SpecAdd == InitAdd /\ [][NextAdd]_vars

\* ---------------------------------------------------- claims on SpecAdd
\* the add handler of client c has just run on a file created after the scan
FileAdded(c) == disk[c] = NoFile /\ disk'[c] # NoFile

\* processFileChange of client c has just run on a changed file whose cached
\* old content was empty
ChangedFromEmpty(c) ==
    /\ debounceTimers[c] /\ ~debounceTimers'[c]
    /\ fileContents[c] = EmptyContent
    /\ disk[c] # EmptyContent

\* what client c has just put on the connection
Sent(c) == { toRelay'[c][i] : i \in (Len(toRelay[c]) + 1)..Len(toRelay'[c]) }

\* C30: when a file is added at a client after the initial scan, and when a
\* changed file's cached old content is empty, the client sends a
\* sync:full-file with the file's content and fingerprint, and no file:diff.
C30_NewContentAsFullFile ==
    [][ \A c \in Names :
          (FileAdded(c) \/ ChangedFromEmpty(c)) =>
             /\ \E m \in Sent(c) :
                   /\ m.event = "sync:full-file"
                   /\ m.payload.file = SyncFile
                   /\ m.payload.hash = hashContent(disk'[c])
             /\ \A m \in Sent(c) : m.event # "file:diff" ]_vars

\* ============================================================== SpecPartial
\* SpecSync with edits that tell a partial apply from a clean one: the user
\* of a client saves the file with region 1 set to any of three values, so
\* that a hunk that finds neither its old nor its new value in the file can
\* fail and leave a content that is not the sender's.
RegionValues == 0..2

PartialEdit ==
    \E c \in budget.clients : \E v \in RegionValues \ { disk[c][1] } :
        /\ Spend("edits")
        /\ disk' = [disk EXCEPT ![c][1] = v]
        /\ changeEvents' = [changeEvents EXCEPT ![c] = TRUE]
        /\ obs' = [obs EXCEPT ![c].localEdits = @ + 1]
        /\ UNCHANGED <<relayState, timing>>
        /\ UNCHANGED <<fileContents, fileVersions, pendingDiffs, applyingIncoming,
                       guardTimers, debounceTimers, socket, sendBuffer, autoLockTimers,
                       burstMode, rapidWrites, toRelay, fromRelay>>

NextPartial ==
    \/ PartialEdit
    \/ SyncChange
    \/ SyncDebounceTimer
    \/ SyncGuardTimer
    \/ SyncIncomingDiff
    \/ SyncRelayFileDiff
    \/ SyncRelayFileLock

SpecPartial == InitSync /\ [][NextPartial]_vars

\* -------------------------------------------------- claims on SpecPartial
\* client c has just taken a file:diff off the connection
IncomingHandled(c) ==
    /\ fromRelay[c] # << >>
    /\ Head(fromRelay[c]).event = "file:diff"
    /\ fromRelay'[c] = Tail(fromRelay[c])

\* C31: partial apply.  When a client handles an incoming file:diff, it writes
\* the result of the patch to the file whether or not every hunk applied; on
\* a clean apply fileVersions becomes the version of the diff, on a partial
\* apply the fingerprint of the result; in both cases the guard is set and
\* one more release timer is pending.
C31_PartialApply ==
    [][ \A c \in Names :
          IncomingHandled(c) =>
             LET diff == Head(fromRelay[c]).payload
             IN /\ \E r \in applyPatch(disk[c], diff.patch) :
                      /\ disk'[c] = r.result
                      /\ r.success => fileVersions'[c] = diff.version
                      /\ ~r.success => fileVersions'[c] = hashContent(r.result)
                /\ applyingIncoming'[c]
                /\ guardTimers'[c] = guardTimers[c] + 1 ]_vars

\* B, which has sent no diff, has applied a diff of A in part: its file is the
\* best-effort result, and fileVersions is the fingerprint of that result and
\* not the version of the diff
C31_Witness ==
    /\ obs["B"].produced = 0
    /\ obs["B"].arrived > 1
    /\ history[obs["B"].arrived].author = "A"
    /\ fileVersions["B"] # history[obs["B"].arrived].version
    /\ fileVersions["B"] = hashContent(disk["B"])
    /\ applyingIncoming["B"]
    /\ guardTimers["B"] > 0

\* ================================================================= SpecFair
\* SpecSync under fair scheduling, for what happens eventually.  The user of
\* A edits region 1 and the user of B region 2, so that region 2 of B's file
\* changes only when B's user saves it or when a diff made from B's own
\* change comes back.  A watcher event that is due is delivered, a timer
\* that is pending fires and a packet in flight arrives; the users are free
\* to stop editing.
FairEdit ==
    /\ LocalEdit
    /\ disk'["A"][2] = disk["A"][2]
    /\ disk'["B"][1] = disk["B"][1]

NextFair ==
    \/ FairEdit
    \/ SyncChange
    \/ SyncDebounceTimer
    \/ SyncGuardTimer
    \/ SyncIncomingDiff
    \/ SyncRelayFileDiff
    \/ SyncRelayFileLock

SpecFair ==
    /\ InitSync
    /\ [][NextFair]_vars
    /\ WF_vars(SyncChange)
    /\ WF_vars(SyncDebounceTimer)
    /\ WF_vars(SyncGuardTimer)
    /\ WF_vars(SyncIncomingDiff)
    /\ WF_vars(SyncRelayFileDiff)
    /\ WF_vars(SyncRelayFileLock)

\* ----------------------------------------------------- claims on SpecFair
\* the change B's user made to region 2 is in no diff B has made
Unreflected == disk["B"][2] # fileContents["B"][2]

\* C38: no local change is lost.  A change B's user made to the file is
\* eventually in a file:diff that B makes (sends or queues) without a
\* further edit, also when the watcher event of the change is delivered
\* while the guard is set.  (Diffs are made up to MaxProduced in all.)
C38_NoLocalChangeLost ==
    Unreflected ~> (~Unreflected \/ ProducedBy(Names) >= MaxProduced)

\* ============================================================== SpecRelease
\* Client B and the relay under fair scheduling, with every kind of incoming
\* message.  B's user makes no edit.  The connection of A carries file:diff
\* messages, file:delete and file:rename messages for a file B does not
\* have, and sync:full-file messages for the watched file; the relay sends
\* each on to B.  Applying a message at B may throw.
OtherFile == "notes"

InitRelease ==
    /\ RelayEarlier
    /\ ClientsScanned
    /\ connectedClients = { [id |-> "s1", name |-> "A"], [id |-> "s2", name |-> "B"] }
    /\ socket = [c \in Names |-> IF c = "A" THEN "s1" ELSE "s2"]
    /\ ev = [op |-> "sync:handshake", conn |-> "s2",
             arg |-> [clientId |-> "s2", projectId |-> "project",
                      fileVersions |-> (SyncFile :> hashContent(InitContent))],
             out |-> << Emit("ack", "s2", [missingDiffs |-> << >>, fullFiles |-> << >>,
                                           locks |-> {}]) >>]
    /\ obs = [c \in Names |-> [localEdits |-> 0, produced |-> 0, emitted |-> << >>,
                                queued |-> << >>, handshaken |-> TRUE, awayFrom |-> Absent,
                                arrived |-> 0, applied |-> {}]]
    /\ budget = [diff |-> MaxOther, other |-> MaxOther, clients |-> {"B"}]

\* what every incoming handler does whatever its try block did: the guard is
\* set on entry and finally arms a release timer
GuardSetAndArmed(c) ==
    /\ applyingIncoming' = [applyingIncoming EXCEPT ![c] = TRUE]
    /\ guardTimers' = [guardTimers EXCEPT ![c] = @ + 1]
    /\ fromRelay' = [fromRelay EXCEPT ![c] = Tail(@)]

\* socket.on('file:delete') at the client
OnIncomingDelete(c) ==
    /\ fromRelay[c] # << >>
    /\ Head(fromRelay[c]).event = "file:delete"
    /\ GuardSetAndArmed(c)
    /\ disk' = [disk EXCEPT ![c] =
                   IF Head(fromRelay[c]).payload.file = SyncFile THEN NoFile ELSE @]
    /\ UNCHANGED <<fileContents, fileVersions, pendingDiffs, debounceTimers, changeEvents,
                   socket, sendBuffer, autoLockTimers, burstMode, rapidWrites, toRelay, obs>>

\* socket.on('file:rename') at the client
OnIncomingRename(c) ==
    /\ fromRelay[c] # << >>
    /\ Head(fromRelay[c]).event = "file:rename"
    /\ GuardSetAndArmed(c)
    /\ disk' = [disk EXCEPT ![c] =
                   IF Head(fromRelay[c]).payload.oldFile = SyncFile THEN NoFile ELSE @]
    /\ UNCHANGED <<fileContents, fileVersions, pendingDiffs, debounceTimers, changeEvents,
                   socket, sendBuffer, autoLockTimers, burstMode, rapidWrites, toRelay, obs>>

\* socket.on('sync:apply-full-file') at the client
OnIncomingFullFile(c) ==
    /\ fromRelay[c] # << >>
    /\ Head(fromRelay[c]).event = "sync:apply-full-file"
    /\ GuardSetAndArmed(c)
    /\ disk' = [disk EXCEPT ![c] = Head(fromRelay[c]).payload.content]
    /\ fileVersions' = [fileVersions EXCEPT ![c] = Head(fromRelay[c]).payload.hash]
    /\ changeEvents' = [changeEvents EXCEPT ![c] = TRUE]
    /\ UNCHANGED <<fileContents, pendingDiffs, debounceTimers, socket, sendBuffer,
                   autoLockTimers, burstMode, rapidWrites, toRelay, obs>>

\* any of the four handlers when the file system call in its try block throws
\* at once: nothing is written
OnIncomingThrows(c) ==
    /\ fromRelay[c] # << >>
    /\ Head(fromRelay[c]).event \in
           { "file:diff", "file:delete", "file:rename", "sync:apply-full-file" }
    /\ GuardSetAndArmed(c)
    /\ UNCHANGED <<disk, fileContents, fileVersions, pendingDiffs, debounceTimers,
                   changeEvents, socket, sendBuffer, autoLockTimers, burstMode,
                   rapidWrites, toRelay, obs>>

ReleaseIncoming ==
    \E c \in budget.clients :
        /\ \/ OnIncomingDelete(c)
           \/ OnIncomingRename(c)
           \/ OnIncomingFullFile(c)
           \/ OnIncomingThrows(c)
        /\ UNCHANGED <<relayState, budget, timing>>

\* the relay handles a file:diff of A, made on the content the session
\* started with, and sends it on
ReleaseRelayDiff ==
    LET d == [file |-> SyncFile, patch |-> createPatch(InitContent, <<1, 0>>),
              author |-> "A", type |-> "human", timestamp |-> diffSeq + 1,
              version |-> hashContent(<<1, 0>>),
              previousVersion |-> hashContent(InitContent)]
    IN /\ Spend("diff")
       /\ OnFileDiff(socket["A"], d)
       /\ fromRelay' = Broadcast("A", Packet("file:diff", insertDiff(d)))
       /\ UNCHANGED <<clientState, toRelay, sweepAt>>

\* the relay handles a file:delete, a file:rename or a sync:full-file of A
\* and sends it on
ReleaseRelayOther ==
    /\ Spend("other")
    /\ \/ LET data == [file |-> OtherFile, author |-> "A"]
          IN /\ OnFileDelete(socket["A"], data)
             /\ fromRelay' = Broadcast("A", Packet("file:delete", data))
       \/ LET data == [oldFile |-> OtherFile, newFile |-> "notes.bak", author |-> "A"]
          IN /\ OnFileRename(socket["A"], data)
             /\ fromRelay' = Broadcast("A", Packet("file:rename", data))
       \/ LET data == [file |-> SyncFile, content |-> <<1, 1>>,
                       hash |-> hashContent(<<1, 1>>)]
          IN /\ OnFullFile(socket["A"], data)
             /\ fromRelay' = Broadcast("A", Packet("sync:apply-full-file", data))
    /\ UNCHANGED <<clientState, toRelay, sweepAt>>

NextRelease ==
    \/ SyncChange
    \/ SyncDebounceTimer
    \/ SyncGuardTimer
    \/ SyncIncomingDiff
    \/ ReleaseIncoming
    \/ SyncRelayFileDiff
    \/ SyncRelayFileLock
    \/ ReleaseRelayDiff
    \/ ReleaseRelayOther

SpecRelease ==
    /\ InitRelease
    /\ [][NextRelease]_vars
    /\ WF_vars(SyncChange)
    /\ WF_vars(SyncDebounceTimer)
    /\ WF_vars(SyncGuardTimer)
    /\ WF_vars(SyncIncomingDiff)
    /\ WF_vars(ReleaseIncoming)
    /\ WF_vars(SyncRelayFileDiff)
    /\ WF_vars(SyncRelayFileLock)

\* -------------------------------------------------- claims on SpecRelease
\* C39: the echo guard is always released.  At every client, if from some
\* moment on no incoming message is left to handle, then from some moment on
\* the applyingIncoming guard is false for good, whatever kinds of message
\* were handled and whether or not applying one of them threw.
C39_GuardReleased ==
    \A c \in Names :
        <>[](fromRelay[c] = << >>) => <>[](~applyingIncoming[c])

\* B has handled a diff and a message of another kind, nothing is on its way
\* to it, every release timer has fired and the guard is clear
C39_Witness ==
    /\ obs["B"].arrived > 1
    /\ budget.other < MaxOther
    /\ fromRelay["B"] = << >>
    /\ guardTimers["B"] = 0
    /\ ~applyingIncoming["B"]

====
